---- MODULE Spec2Model ----
(***************************************************************************)
(* A state-machine model of the meerkat scene-synchronisation server       *)
(* (backend/meerkat-server): the session store, the connection registry,   *)
(* the per-connection loop of handle_connection, the event dispatcher and  *)
(* the broadcast router.  One task per connection; every access to one of  *)
(* the three DashMaps is one atomic step, and the tasks interleave freely. *)
(***************************************************************************)
EXTENDS Naturals, Sequences, FiniteSets, TLC

\* ---------------------------------------------------------------- universe

Conns      == {"c1", "c2", "c3"}      \* connection ids (Uuid::new_v4 per connection)
SessionIds == {"A", "B"}              \* session keys a client may name
ObjectIds  == {"o1", "o2"}            \* object ids a client may name
Shards     == {1, 2}                  \* shards of the sessions DashMap
None       == "none"                  \* Option::None

MaxFrames == 4    \* inbound frames handled over a run, all connections together
Capacity  == 2    \* slots of a connection's outbound channel (32 in the source)

VARIABLES
    sessions,         \* AppState.sessions: session key -> Session
    connections,      \* AppState.connections: the connection ids with a registered sink
    connection_meta,  \* AppState.connection_meta: connection id -> (session id, user id)
    queue,            \* the mpsc channel of each connection (items not yet received by rx)
    written,          \* the text frames written to each connection's transport
    pc,               \* each connection task's position in handle_connection / dispatch
    task,             \* each connection task's local variables
    lock,             \* sessions shard -> the task holding its RefMut (write guard), or None
    dropped,          \* the items try_send refused for each connection, its channel being full
    next_uuid,        \* the number of user ids generated so far
    frames,           \* the number of inbound frames handled so far
    iter_order,       \* the order in which connection_meta.iter() yields the connections
    shard_of          \* session key -> shard of the sessions DashMap

vars == <<sessions, connections, connection_meta, queue, written, pc, task, lock,
          dropped, next_uuid, frames, iter_order, shard_of>>

\* ------------------------------------------------------------- map helpers

Insert(m, k, v) == [x \in (DOMAIN m) \cup {k} |-> IF x = k THEN v ELSE m[x]]

Remove(m, k) == [x \in (DOMAIN m) \ {k} |-> m[x]]

EmptyMap == [x \in {} |-> None]

RECURSIVE Perms(_)
Perms(S) ==
    IF S = {} THEN {<<>>}
    ELSE UNION {{<<x>> \o p : p \in Perms(S \ {x})} : x \in S}

\* ------------------------------------------------------------ client events

JoinSession(s, n)  == [event_type |-> "JoinSession", session_id |-> s, display_name |-> n]

LeaveSession       == [event_type |-> "LeaveSession"]

CreateObject(o, n, ty, tr, pr) ==
    [event_type |-> "CreateObject", object_id |-> o, name |-> n, object_type |-> ty,
     asset_id |-> None, asset_library |-> None, transform |-> tr, properties |-> pr]

DeleteObject(o)        == [event_type |-> "DeleteObject", object_id |-> o]

UpdateTransform(o, tr) == [event_type |-> "UpdateTransform", object_id |-> o, transform |-> tr]

UpdateProperties(o, pr) ==
    [event_type |-> "UpdateProperties", object_id |-> o, properties |-> pr]

UpdateName(o, n)       == [event_type |-> "UpdateName", object_id |-> o, name |-> n]

SelectObject(o)        == [event_type |-> "SelectObject", object_id |-> o]

\* ------------------------------------------------------------ server events

FullStateSync(s) == [event_type |-> "FullStateSync", session |-> s]

ObjectCreated(obj, u) == [event_type |-> "ObjectCreated", object |-> obj, created_by |-> u]

ObjectDeleted(o, u) == [event_type |-> "ObjectDeleted", object_id |-> o, deleted_by |-> u]

TransformUpdated(o, tr, u) ==
    [event_type |-> "TransformUpdated", object_id |-> o, transform |-> tr, updated_by |-> u]

PropertiesUpdated(o, pr, u) ==
    [event_type |-> "PropertiesUpdated", object_id |-> o, properties |-> pr, updated_by |-> u]

NameUpdated(o, n, u) ==
    [event_type |-> "NameUpdated", object_id |-> o, name |-> n, updated_by |-> u]

UserJoined(u, n) ==
    [event_type |-> "UserJoined", user_id |-> u, display_name |-> n, color |-> <<255, 0, 0>>]

UserLeft(u) == [event_type |-> "UserLeft", user_id |-> u]

UserSelected(u, o) == [event_type |-> "UserSelected", user_id |-> u, object_id |-> o]

\* An item of a channel or of a transport: the text, and the session whose
\* broadcast (or join) produced it.  The session is not on the wire; it names
\* the origin of the item.
Item(sid, json) == [session_id |-> sid, json |-> json]

\* ------------------------------------------------------------- scene model

NewSession(sid) ==
    [session_id |-> sid, objects |-> EmptyMap, users |-> EmptyMap, event_log |-> <<>>]

\* websocket.rs:150 and 177: the one colour every user is given.
Red == <<255, 0, 0>>

NewUser(n) == [display_name |-> n, color |-> Red, selected_object |-> None]

LogEntry(ev, now) ==
    [timestamp |-> now, event_type |-> ev.event_type,
     payload |-> [x \in (DOMAIN ev) \ {"event_type"} |-> ev[x]]]

\* An object without the asset references of its payload.
SceneObjectNoAsset(p, uid, now) ==
    [object_id |-> p.object_id, name |-> p.name, object_type |-> p.object_type,
     asset_id |-> None, asset_library |-> None,
     transform |-> p.transform, properties |-> p.properties,
     created_by |-> uid, last_updated_by |-> uid, last_updated_at |-> now]

\* websocket.rs:231-242.
SceneObject(p, uid, now) ==
    [object_id |-> p.object_id, name |-> p.name, object_type |-> p.object_type,
     asset_id |-> p.asset_id, asset_library |-> p.asset_library,
     transform |-> p.transform, properties |-> p.properties,
     created_by |-> uid, last_updated_by |-> uid, last_updated_at |-> now]

\* ------------------------------------------------------------ task locals

Idle == [ev |-> None, sid |-> None, uid |-> 0, now |-> 0, json |-> None, exclude |-> None,
         idx |-> 0, count |-> 0, ret |-> None]

\* The server after construction (main.rs), serving the connections CS.
InitOf(CS, SM) ==
    /\ sessions = EmptyMap
    /\ connections = {}
    /\ connection_meta = EmptyMap
    /\ queue = [c \in Conns |-> <<>>]
    /\ written = [c \in Conns |-> <<>>]
    /\ pc = [c \in Conns |-> "init"]
    /\ task = [c \in Conns |-> Idle]
    /\ lock = [h \in Shards |-> None]
    /\ dropped = [c \in Conns |-> <<>>]
    /\ next_uuid = 0
    /\ frames = 0
    /\ iter_order \in Perms(CS)
    /\ shard_of \in SM

\* ---------------------------------------------------------------- broadcast

\* A filter that excludes nobody.
MatchesAnyone(sid, exclude, d) ==
    /\ d \in DOMAIN connection_meta
    /\ connection_meta[d].sid = sid

\* websocket.rs:36-44: the entry of connection d is a recipient of a broadcast
\* to session sid that excludes connection exclude.
Matches(sid, exclude, d) ==
    /\ d \in DOMAIN connection_meta
    /\ connection_meta[d].sid = sid
    /\ d # exclude

\* A try_send that never succeeds.
CanSendNever(d) == FALSE

\* A send that puts the item into the queue whatever the queue holds.
CanSendAlways(d) == d \in connections

\* A send that needs no registered sink.
CanSendUnregistered(d) == Len(queue[d]) < Capacity

\* websocket.rs:45-46: the sink of d is registered and try_send succeeds.
CanSend(d) == d \in connections /\ Len(queue[d]) < Capacity

\* A broadcast that takes, for every visit, the guard of the session's shard of
\* the session store.
BroadcastVisitUnderGuard(c) ==
    /\ pc[c] = "broadcast"
    /\ lock[shard_of[task[c].sid]] = None
    /\ LET t    == task[c]
           d    == iter_order[t.idx]
           hit  == Matches(t.sid, t.exclude, d)
           sent == hit /\ CanSend(d)
           last == t.idx = Len(iter_order)
       IN  /\ queue' = [x \in Conns |->
                          IF last /\ t.ret = "done" /\ x = c THEN <<>>
                          ELSE IF sent /\ x = d THEN Append(queue[x], Item(t.sid, t.json))
                          ELSE queue[x]]
           /\ dropped' = IF hit /\ d \in connections /\ ~sent
                         THEN [dropped EXCEPT ![d] = Append(@, Item(t.sid, t.json))]
                         ELSE dropped
           /\ IF last
              THEN /\ pc' = [pc EXCEPT ![c] = t.ret]
                   /\ task' = [task EXCEPT ![c] = Idle]
                   /\ lock' = [h \in Shards |-> IF lock[h] = c THEN None ELSE lock[h]]
              ELSE /\ pc' = pc
                   /\ task' = [task EXCEPT ![c].idx = @ + 1,
                                           ![c].count = IF sent THEN @ + 1 ELSE @]
                   /\ lock' = lock
    /\ UNCHANGED <<sessions, connections, connection_meta, written, next_uuid, frames,
                   iter_order, shard_of>>

\* One iteration of the loop of broadcast: the entry of the next connection in
\* iteration order is read and, when it matches, the text is handed to
\* try_send.  After the last entry broadcast returns, and so does the dispatch
\* arm (or the cleanup) that called it; the guard of a JoinSession arm is
\* dropped there.
BroadcastVisit(c) ==
    /\ pc[c] = "broadcast"
    /\ LET t    == task[c]
           d    == iter_order[t.idx]
           hit  == Matches(t.sid, t.exclude, d)
           sent == hit /\ CanSend(d)
           last == t.idx = Len(iter_order)
       IN  /\ queue' = [x \in Conns |->
                          IF last /\ t.ret = "done" /\ x = c THEN <<>>
                          ELSE IF sent /\ x = d THEN Append(queue[x], Item(t.sid, t.json))
                          ELSE queue[x]]
           /\ dropped' = IF hit /\ d \in connections /\ ~sent
                         THEN [dropped EXCEPT ![d] = Append(@, Item(t.sid, t.json))]
                         ELSE dropped
           /\ IF last
              THEN /\ pc' = [pc EXCEPT ![c] = t.ret]
                   /\ task' = [task EXCEPT ![c] = Idle]
                   /\ lock' = [h \in Shards |-> IF lock[h] = c THEN None ELSE lock[h]]
              ELSE /\ pc' = pc
                   /\ task' = [task EXCEPT ![c].idx = @ + 1,
                                           ![c].count = IF sent THEN @ + 1 ELSE @]
                   /\ lock' = lock
    /\ UNCHANGED <<sessions, connections, connection_meta, written, next_uuid, frames,
                   iter_order, shard_of>>

\* The locals of a task that enters broadcast(state, sid, json, exclude) and
\* goes to ret when it returns.
Call(t, sid, json, exclude, ret) ==
    [t EXCEPT !.sid = sid, !.json = json, !.exclude = exclude, !.idx = 1, !.count = 0,
              !.ret = ret]

\* ------------------------------------------------------- handle_connection

\* websocket.rs:63-65: the connection's channel is created and its sender registered.
Open(c) ==
    /\ pc[c] = "init"
    /\ connections' = connections \cup {c}
    /\ pc' = [pc EXCEPT ![c] = "loop"]
    /\ UNCHANGED <<sessions, connection_meta, queue, written, task, lock, dropped,
                   next_uuid, frames, iter_order, shard_of>>

\* websocket.rs:25-30: the clock, read as the number of frames received so
\* far, so that the readings of two dispatches differ.
now_ms == frames

\* The read of the connection's binding that opens every arm but JoinSession
\* (websocket.rs:223: connection_meta.get, cloned): the binding, or NoBinding
\* for None.
NoBinding == [sid |-> None, uid |-> 0]

\* A read that yields a binding to session A when there is none.
LookupOrA(c) ==
    IF c \in DOMAIN connection_meta THEN connection_meta[c] ELSE [sid |-> "A", uid |-> 0]

Lookup(c) == IF c \in DOMAIN connection_meta THEN connection_meta[c] ELSE NoBinding

\* A dispatch whose LeaveSession arm leaves the connection's binding in place.
RecvFrameKeepingBinding(c, ev) ==
    /\ pc[c] = "loop"
    /\ frames < MaxFrames
    /\ frames' = frames + 1
    /\ IF ev.event_type = "JoinSession"
       THEN /\ pc' = [pc EXCEPT ![c] = "join"]
            /\ task' = [task EXCEPT ![c].ev = ev]
            /\ UNCHANGED connection_meta
       ELSE IF Lookup(c) = NoBinding
       THEN UNCHANGED <<pc, task, connection_meta>>
       ELSE LET b == Lookup(c)
            IN  /\ task' = [task EXCEPT ![c].ev = ev, ![c].sid = b.sid, ![c].uid = b.uid,
                                        ![c].now = IF ev.event_type \in {"LeaveSession", "SelectObject"}
                                                   THEN 0 ELSE now_ms']
                /\ pc' = [pc EXCEPT ![c] =
                            IF ev.event_type = "LeaveSession" THEN "leave"
                            ELSE IF ev.event_type = "SelectObject" THEN "select"
                            ELSE "mutate"]
                /\ connection_meta' = connection_meta
    /\ UNCHANGED <<sessions, connections, queue, written, lock, dropped, next_uuid,
                   iter_order, shard_of>>

\* websocket.rs:71-78 and the first statement of the dispatch arm: a text frame
\* that parses as ev is received; every arm but JoinSession reads (LeaveSession:
\* removes) the connection's binding and returns when there is none.
RecvFrame(c, ev) ==
    /\ pc[c] = "loop"
    /\ frames < MaxFrames
    /\ frames' = frames + 1
    /\ IF ev.event_type = "JoinSession"
       THEN /\ pc' = [pc EXCEPT ![c] = "join"]
            /\ task' = [task EXCEPT ![c].ev = ev]
            /\ UNCHANGED connection_meta
       ELSE IF Lookup(c) = NoBinding
       THEN UNCHANGED <<pc, task, connection_meta>>
       ELSE LET b == Lookup(c)
            IN  /\ task' = [task EXCEPT ![c].ev = ev, ![c].sid = b.sid, ![c].uid = b.uid,
                                        ![c].now = IF ev.event_type \in {"LeaveSession", "SelectObject"}
                                                   THEN 0 ELSE now_ms']
                /\ pc' = [pc EXCEPT ![c] =
                            IF ev.event_type = "LeaveSession" THEN "leave"
                            ELSE IF ev.event_type = "SelectObject" THEN "select"
                            ELSE "mutate"]
                /\ connection_meta' = IF ev.event_type = "LeaveSession"
                                      THEN Remove(connection_meta, c)
                                      ELSE connection_meta
    /\ UNCHANGED <<sessions, connections, queue, written, lock, dropped, next_uuid,
                   iter_order, shard_of>>

\* types.rs:73-82 and 134-140: a Properties value is written here by its
\* variant and, for a light, its power, an f32: "PointLight(1.0)", and
\* "PointLight(inf)" for the power f32::INFINITY.  On the wire the same
\* spellings stand for the JSON texts, with "PointLight(1e39)" for a power
\* that is a JSON number beyond the range of f32, "PointLight(null)" for a
\* power that is the JSON null, and None for the JSON null in place of the
\* whole value.
\*
\* Serialize: a number that is not finite is written as null.
WriteProperties(p) == IF p = "PointLight(inf)" THEN "PointLight(null)" ELSE p

\* Deserialize: a null where a number is expected is an error.
Readable(w) == w # "PointLight(null)"

\* Deserialize: an f32 is read as an f64 and cast, so that a number beyond the
\* range of f32 becomes the infinity.
ReadProperties(w) == IF w = "PointLight(1e39)" THEN "PointLight(inf)" ELSE w

\* The fields a payload must have, and the Option fields it may leave out
\* (messages.rs:19-61).
Required(ty) ==
    CASE ty = "JoinSession"      -> {"session_id", "display_name"}
      [] ty = "LeaveSession"     -> {}
      [] ty = "CreateObject"     -> {"object_id", "name", "object_type", "transform"}
      [] ty = "DeleteObject"     -> {"object_id"}
      [] ty = "UpdateTransform"  -> {"object_id", "transform"}
      [] ty = "UpdateProperties" -> {"object_id", "properties"}
      [] ty = "UpdateName"       -> {"object_id", "name"}
      [] ty = "SelectObject"     -> {}

Optional(ty) ==
    CASE ty = "CreateObject"     -> {"asset_id", "asset_library", "properties"}
      [] ty = "SelectObject"     -> {"object_id"}
      [] OTHER                   -> {}

\* messages.rs:65-76: the discriminators of ClientEvent.
ClientEventTypes ==
    {"JoinSession", "LeaveSession", "CreateObject", "DeleteObject", "UpdateTransform",
     "UpdateProperties", "UpdateName", "SelectObject"}

\* The text of a frame: whether it is JSON at all, and if so its event_type
\* tag and the fields of its payload.  Serialize writes an event as such a text.
Text(ev) ==
    [json |-> TRUE, event_type |-> ev.event_type,
     payload |-> [x \in (DOMAIN ev) \ {"event_type"} |->
                    IF x = "properties" THEN WriteProperties(ev[x]) ELSE ev[x]]]

\* A parse that takes every text for the event its tag and fields spell.
ParseAnything(raw) ==
    [ok |-> TRUE,
     event |-> [k \in {"event_type"} \cup DOMAIN raw.payload |->
                  IF k = "event_type" THEN raw.event_type ELSE raw.payload[k]]]

\* messages.rs:162-164: serde_json::from_str into the adjacently tagged enum.
\* It fails on a text that is not JSON, on an unknown event_type, on a
\* payload that lacks a required field and on a null where a value that is no
\* Option is expected; an absent Option field is None and an unknown field
\* is ignored.
parse_client_message(raw) ==
    IF /\ raw.json
       /\ raw.event_type \in ClientEventTypes
       /\ Required(raw.event_type) \subseteq DOMAIN raw.payload
       /\ "properties" \in DOMAIN raw.payload =>
             /\ Readable(raw.payload.properties)
             /\ "properties" \in Required(raw.event_type) => raw.payload.properties # None
    THEN [ok |-> TRUE,
          event |-> [k \in {"event_type"} \cup Required(raw.event_type)
                               \cup Optional(raw.event_type) |->
                       IF k = "event_type" THEN raw.event_type
                       ELSE IF k \notin DOMAIN raw.payload THEN None
                       ELSE IF k = "properties" THEN ReadProperties(raw.payload[k])
                       ELSE raw.payload[k]]]
    ELSE [ok |-> FALSE, event |-> None]

\* types.rs:142-154 and 171-177: an object and a session as serialized.
WriteObject(obj) == [obj EXCEPT !.properties = WriteProperties(@)]

WriteSession(sess) == [sess EXCEPT !.objects = [o \in DOMAIN @ |-> WriteObject(@[o])]]

\* messages.rs:144-157, websocket.rs:168 (and 250, 296, ...): serde_json's
\* to_string of a ServerEvent, tagged by event_type with its payload.
to_string(ev) ==
    [json |-> TRUE, event_type |-> ev.event_type,
     payload |-> [x \in (DOMAIN ev) \ {"event_type"} |->
                    IF x = "properties" THEN WriteProperties(ev[x])
                    ELSE IF x = "object" THEN WriteObject(ev[x])
                    ELSE IF x = "session" THEN WriteSession(ev[x])
                    ELSE ev[x]]]

\* messages.rs:81-134: the fields of the payload of each ServerEvent, none
\* of them an Option but the object_id of UserSelected.
ServerFields(ty) ==
    CASE ty = "FullStateSync"     -> {"session"}
      [] ty = "ObjectCreated"     -> {"object", "created_by"}
      [] ty = "ObjectDeleted"     -> {"object_id", "deleted_by"}
      [] ty = "TransformUpdated"  -> {"object_id", "transform", "updated_by"}
      [] ty = "PropertiesUpdated" -> {"object_id", "properties", "updated_by"}
      [] ty = "NameUpdated"       -> {"object_id", "name", "updated_by"}
      [] ty = "UserJoined"        -> {"user_id", "display_name", "color"}
      [] ty = "UserLeft"          -> {"user_id"}
      [] ty = "UserSelected"      -> {"user_id", "object_id"}
      [] ty = "Error"             -> {"code", "message"}

ServerEventTypes ==
    {"FullStateSync", "ObjectCreated", "ObjectDeleted", "TransformUpdated",
     "PropertiesUpdated", "NameUpdated", "UserJoined", "UserLeft", "UserSelected", "Error"}

ReadObject(w) == [w EXCEPT !.properties = ReadProperties(@)]

ReadSession(w) == [w EXCEPT !.objects = [o \in DOMAIN @ |-> ReadObject(@[o])]]

\* messages.rs:182-184: serde_json's from_str into ServerEvent, as a client of
\* the server reads a frame.
from_str(raw) ==
    IF /\ raw.json
       /\ raw.event_type \in ServerEventTypes
       /\ ServerFields(raw.event_type) \subseteq DOMAIN raw.payload
       /\ raw.event_type = "PropertiesUpdated" =>
             Readable(raw.payload.properties) /\ raw.payload.properties # None
       /\ raw.event_type = "ObjectCreated" => Readable(raw.payload.object.properties)
       /\ raw.event_type = "FullStateSync" =>
             \A o \in DOMAIN raw.payload.session.objects :
                Readable(raw.payload.session.objects[o].properties)
    THEN [ok |-> TRUE,
          event |-> [k \in {"event_type"} \cup ServerFields(raw.event_type) |->
                       IF k = "event_type" THEN raw.event_type
                       ELSE IF k = "properties" THEN ReadProperties(raw.payload[k])
                       ELSE IF k = "object" THEN ReadObject(raw.payload[k])
                       ELSE IF k = "session" THEN ReadSession(raw.payload[k])
                       ELSE raw.payload[k]]]
    ELSE [ok |-> FALSE, event |-> None]

\* websocket.rs:71-86: a text frame is received and parsed; an event is
\* dispatched, and a text that does not parse is reported and dropped, the
\* loop going on.
RecvText(c, raw) ==
    LET r == parse_client_message(raw)
    IN  IF r.ok
        THEN RecvFrame(c, r.event)
        ELSE /\ pc[c] = "loop"
             /\ frames < MaxFrames
             /\ frames' = frames + 1
             /\ UNCHANGED <<sessions, connections, connection_meta, queue, written, pc,
                            task, lock, dropped, next_uuid, iter_order, shard_of>>

\* A receiver that yields the newest item of the channel instead of the oldest.
WriteOutNewest(c) ==
    /\ pc[c] = "loop"
    /\ queue[c] # <<>>
    /\ queue' = [queue EXCEPT ![c] = SubSeq(@, 1, Len(@) - 1)]
    /\ written' = [written EXCEPT ![c] = Append(@, queue[c][Len(queue[c])])]
    /\ UNCHANGED <<sessions, connections, connection_meta, pc, task, lock, dropped,
                   next_uuid, frames, iter_order, shard_of>>

\* websocket.rs:88-89: rx.recv() yields the oldest item and socket.send writes it.
WriteOut(c) ==
    /\ pc[c] = "loop"
    /\ queue[c] # <<>>
    /\ queue' = [queue EXCEPT ![c] = Tail(@)]
    /\ written' = [written EXCEPT ![c] = Append(@, Head(queue[c]))]
    /\ UNCHANGED <<sessions, connections, connection_meta, pc, task, lock, dropped,
                   next_uuid, frames, iter_order, shard_of>>

\* websocket.rs:88-91 and 97: socket.send fails; the loop ends and the sink is deregistered.
WriteFail(c) ==
    /\ pc[c] = "loop"
    /\ queue[c] # <<>>
    /\ queue' = [queue EXCEPT ![c] = Tail(@)]
    /\ connections' = connections \ {c}
    /\ pc' = [pc EXCEPT ![c] = "cleanup"]
    /\ UNCHANGED <<sessions, connection_meta, written, task, lock, dropped, next_uuid,
                   frames, iter_order, shard_of>>

\* websocket.rs:74 and 97: the transport closes or fails; the loop ends and the
\* sink is deregistered.
Close(c) ==
    /\ pc[c] = "loop"
    /\ connections' = connections \ {c}
    /\ pc' = [pc EXCEPT ![c] = "cleanup"]
    /\ UNCHANGED <<sessions, connection_meta, queue, written, task, lock, dropped,
                   next_uuid, frames, iter_order, shard_of>>

\* websocket.rs:100 and 118-120: the binding, if any, is removed.
CleanupMeta(c) ==
    /\ pc[c] = "cleanup"
    /\ IF c \in DOMAIN connection_meta
       THEN /\ connection_meta' = Remove(connection_meta, c)
            /\ task' = [task EXCEPT ![c].sid = connection_meta[c].sid,
                                    ![c].uid = connection_meta[c].uid]
            /\ pc' = [pc EXCEPT ![c] = "cleanup_users"]
            /\ UNCHANGED queue
       ELSE /\ pc' = [pc EXCEPT ![c] = "done"]
            /\ queue' = [queue EXCEPT ![c] = <<>>]
            /\ UNCHANGED <<connection_meta, task>>
    /\ UNCHANGED <<sessions, connections, written, lock, dropped, next_uuid, frames,
                   iter_order, shard_of>>

\* A removal that leaves the user in the session.
RemoveUserKept(sess, uid) == sess

\* A removal that empties the users map.
RemoveUserAll(sess, uid) == [sess EXCEPT !.users = EmptyMap]

\* websocket.rs:197 and 102: session.users.remove(&uid).
RemoveUser(sess, uid) == [sess EXCEPT !.users = Remove(@, uid)]

\* websocket.rs:101-110: under a read guard of the session's shard the user is
\* removed; then UserLeft is broadcast to the session, nobody excluded.
CleanupUsers(c) ==
    /\ pc[c] = "cleanup_users"
    /\ LET t == task[c]
       IN  /\ lock[shard_of[t.sid]] = None
           /\ sessions' = IF t.sid \in DOMAIN sessions
                          THEN [sessions EXCEPT ![t.sid] = RemoveUser(@, t.uid)]
                          ELSE sessions
           /\ task' = [task EXCEPT ![c] = Call(t, t.sid, UserLeft(t.uid), None, "done")]
    /\ pc' = [pc EXCEPT ![c] = "broadcast"]
    /\ UNCHANGED <<connections, connection_meta, queue, written, lock, dropped,
                   next_uuid, frames, iter_order, shard_of>>

\* ----------------------------------------------------------------- dispatch


\* A join that inserts no user.
JoinUserNobody(sess, uid, n) == sess

\* websocket.rs:148-153: session.users.insert(user_id, User { .. }).
JoinUser(sess, uid, n) == [sess EXCEPT !.users = Insert(@, uid, NewUser(n))]

\* A generator that returns again the id it returned last.
SameUuid == next_uuid

\* websocket.rs:147: Uuid::new_v4(). A version-4 UUID has 122 random bits; the
\* generator is taken to return a value it has not returned before, which is
\* what the numbering stands for.
NewUuid == next_uuid + 1

\* A creation that does not look for the session.
or_insert_anyway(sid) == NewSession(sid)

\* websocket.rs:134-145: sessions.entry(key).or_insert_with(..) yields the
\* session of the key, a new and empty one when the key has none.
or_insert_with(sid) == IF sid \in DOMAIN sessions THEN sessions[sid] ELSE NewSession(sid)

\* websocket.rs:134-172: the entry guard of the session's shard is taken (the
\* session is created when absent), a user with a new id is inserted, the
\* connection is bound, and the session is cloned into the FullStateSync text.
\* The guard stays held until the arm ends.
JoinEntry(c) ==
    /\ pc[c] = "join"
    /\ LET ev   == task[c].ev
           sid  == ev.session_id
           uid  == NewUuid
           sess == JoinUser(or_insert_with(sid), uid, ev.display_name)
       IN  /\ lock[shard_of[sid]] = None
           /\ lock' = [lock EXCEPT ![shard_of[sid]] = c]
           /\ sessions' = Insert(sessions, sid, sess)
           /\ next_uuid' = uid
           /\ connection_meta' = Insert(connection_meta, c, [sid |-> sid, uid |-> uid])
           /\ task' = [task EXCEPT ![c].sid = sid, ![c].uid = uid,
                                   ![c].json = FullStateSync(sess)]
    /\ pc' = [pc EXCEPT ![c] = "join_send"]
    /\ UNCHANGED <<connections, queue, written, dropped, frames, iter_order, shard_of>>

\* A join that puts the FullStateSync into the joiner's own channel, behind the
\* items already queued there, instead of writing it to the transport.
JoinSendQueued(c) ==
    /\ pc[c] = "join_send"
    /\ LET t == task[c]
       IN  /\ queue' = [queue EXCEPT ![c] = Append(@, Item(t.sid, t.json))]
           /\ task' = [task EXCEPT ![c] =
                         Call(t, t.sid, UserJoined(t.uid, t.ev.display_name), c, "loop")]
    /\ pc' = [pc EXCEPT ![c] = "broadcast"]
    /\ UNCHANGED <<sessions, connections, connection_meta, written, lock, dropped,
                   next_uuid, frames, iter_order, shard_of>>

\* websocket.rs:172-181: the FullStateSync is written to the joiner's own
\* transport; then UserJoined is broadcast to the session, the joiner excluded.
JoinSend(c) ==
    /\ pc[c] = "join_send"
    /\ LET t == task[c]
       IN  /\ written' = [written EXCEPT ![c] = Append(@, Item(t.sid, t.json))]
           /\ task' = [task EXCEPT ![c] =
                         Call(t, t.sid, UserJoined(t.uid, t.ev.display_name), c, "loop")]
    /\ pc' = [pc EXCEPT ![c] = "broadcast"]
    /\ UNCHANGED <<sessions, connections, connection_meta, queue, lock, dropped,
                   next_uuid, frames, iter_order, shard_of>>

\* websocket.rs:168-181: socket.send fails while the FullStateSync is written;
\* `.ok()` discards the error, so the arm goes on to broadcast UserJoined and
\* returns to the loop.
JoinSendFail(c) ==
    /\ pc[c] = "join_send"
    /\ LET t == task[c]
       IN  task' = [task EXCEPT ![c] =
                      Call(t, t.sid, UserJoined(t.uid, t.ev.display_name), c, "loop")]
    /\ pc' = [pc EXCEPT ![c] = "broadcast"]
    /\ UNCHANGED <<sessions, connections, connection_meta, queue, written, lock, dropped,
                   next_uuid, frames, iter_order, shard_of>>

\* websocket.rs:196-212: under a read guard of the session's shard the user is
\* removed; then UserLeft is broadcast to the session, the leaver excluded.
LeaveUsers(c) ==
    /\ pc[c] = "leave"
    /\ LET t == task[c]
       IN  /\ lock[shard_of[t.sid]] = None
           /\ sessions' = IF t.sid \in DOMAIN sessions
                          THEN [sessions EXCEPT ![t.sid] = RemoveUser(@, t.uid)]
                          ELSE sessions
           /\ task' = [task EXCEPT ![c] = Call(t, t.sid, UserLeft(t.uid), c, "loop")]
    /\ pc' = [pc EXCEPT ![c] = "broadcast"]
    /\ UNCHANGED <<connections, connection_meta, queue, written, lock, dropped,
                   next_uuid, frames, iter_order, shard_of>>

\* A creation whose log entry goes in front of the entries already logged.
ApplyCreateObjectLogFirst(sess, ev, uid, now) ==
    [sess EXCEPT !.objects = Insert(@, ev.object_id, SceneObject(ev, uid, now)),
                 !.event_log = <<LogEntry(ev, now)>> \o @]

\* A creation that replaces the map by the new object alone.
ApplyCreateObjectAlone(sess, ev, uid, now) ==
    [sess EXCEPT !.objects = Insert(EmptyMap, ev.object_id, SceneObject(ev, uid, now)),
                 !.event_log = Append(@, LogEntry(ev, now))]

\* A creation that keeps the object already stored under the id.
ApplyCreateObjectKeeping(sess, ev, uid, now) ==
    [sess EXCEPT !.objects = IF ev.object_id \in DOMAIN @ THEN @
                             ELSE Insert(@, ev.object_id, SceneObject(ev, uid, now)),
                 !.event_log = Append(@, LogEntry(ev, now))]

\* websocket.rs:231-248: the object is inserted under its id and the event logged.
ApplyCreateObject(sess, ev, uid, now) ==
    [sess EXCEPT !.objects = Insert(@, ev.object_id, SceneObject(ev, uid, now)),
                 !.event_log = Append(@, LogEntry(ev, now))]

\* A deletion that also prunes the log of the entries of the deleted object.
ApplyDeleteObjectPruning(sess, ev, uid, now) ==
    [sess EXCEPT !.objects = Remove(@, ev.object_id),
                 !.event_log = Append(SelectSeq(@, LAMBDA e : e.payload.object_id # ev.object_id),
                                      LogEntry(ev, now))]

\* websocket.rs:284-289: the object is removed and the event logged.
ApplyDeleteObject(sess, ev, uid, now) ==
    [sess EXCEPT !.objects = Remove(@, ev.object_id),
                 !.event_log = Append(@, LogEntry(ev, now))]

\* An update that gives the transform to every object of the session.
ApplyUpdateTransformAll(sess, ev, uid, now) ==
    [sess EXCEPT !.objects = IF ev.object_id \in DOMAIN @
                             THEN [o \in DOMAIN @ |->
                                     [@[o] EXCEPT !.transform = ev.transform,
                                                  !.last_updated_by = uid,
                                                  !.last_updated_at = now]]
                             ELSE @,
                 !.event_log = Append(@, LogEntry(ev, now))]

\* websocket.rs:325-334: the transform of the object, if present, is replaced
\* and the event logged.
ApplyUpdateTransform(sess, ev, uid, now) ==
    [sess EXCEPT !.objects = IF ev.object_id \in DOMAIN @
                             THEN [@ EXCEPT ![ev.object_id].transform = ev.transform,
                                            ![ev.object_id].last_updated_by = uid,
                                            ![ev.object_id].last_updated_at = now]
                             ELSE @,
                 !.event_log = Append(@, LogEntry(ev, now))]

\* websocket.rs:373-382: the properties of the object, if present, are replaced
\* and the event logged.
ApplyUpdateProperties(sess, ev, uid, now) ==
    [sess EXCEPT !.objects = IF ev.object_id \in DOMAIN @
                             THEN [@ EXCEPT ![ev.object_id].properties = ev.properties,
                                            ![ev.object_id].last_updated_by = uid,
                                            ![ev.object_id].last_updated_at = now]
                             ELSE @,
                 !.event_log = Append(@, LogEntry(ev, now))]

\* A rename that is logged only when the object is present.
ApplyUpdateNameIfPresent(sess, ev, uid, now) ==
    IF ev.object_id \in DOMAIN sess.objects
    THEN [sess EXCEPT !.objects = [@ EXCEPT ![ev.object_id].name = ev.name,
                                            ![ev.object_id].last_updated_by = uid,
                                            ![ev.object_id].last_updated_at = now],
                      !.event_log = Append(@, LogEntry(ev, now))]
    ELSE sess

\* websocket.rs:421-430: the name of the object, if present, is replaced and the
\* event logged.
ApplyUpdateName(sess, ev, uid, now) ==
    [sess EXCEPT !.objects = IF ev.object_id \in DOMAIN @
                             THEN [@ EXCEPT ![ev.object_id].name = ev.name,
                                            ![ev.object_id].last_updated_by = uid,
                                            ![ev.object_id].last_updated_at = now]
                             ELSE @,
                 !.event_log = Append(@, LogEntry(ev, now))]

\* The mutate-and-log block of the arm of ev, between get_mut and drop(session).
Apply(sess, ev, uid, now) ==
    CASE ev.event_type = "CreateObject"     -> ApplyCreateObject(sess, ev, uid, now)
      [] ev.event_type = "DeleteObject"     -> ApplyDeleteObject(sess, ev, uid, now)
      [] ev.event_type = "UpdateTransform"  -> ApplyUpdateTransform(sess, ev, uid, now)
      [] ev.event_type = "UpdateProperties" -> ApplyUpdateProperties(sess, ev, uid, now)
      [] ev.event_type = "UpdateName"       -> ApplyUpdateName(sess, ev, uid, now)

\* The server event the arm of ev serialises after drop(session).
\* A server event that names the user of the lowest id as the acting user.
ReplyAsFirst(ev, uid, now) ==
    CASE ev.event_type = "CreateObject"     -> ObjectCreated(SceneObject(ev, 1, now), 1)
      [] ev.event_type = "DeleteObject"     -> ObjectDeleted(ev.object_id, 1)
      [] ev.event_type = "UpdateTransform"  -> TransformUpdated(ev.object_id, ev.transform, 1)
      [] ev.event_type = "UpdateProperties" -> PropertiesUpdated(ev.object_id, ev.properties, 1)
      [] ev.event_type = "UpdateName"       -> NameUpdated(ev.object_id, ev.name, 1)
      [] ev.event_type = "SelectObject"     -> UserSelected(1, ev.object_id)

Reply(ev, uid, now) ==
    CASE ev.event_type = "CreateObject"     -> ObjectCreated(SceneObject(ev, uid, now), uid)
      [] ev.event_type = "DeleteObject"     -> ObjectDeleted(ev.object_id, uid)
      [] ev.event_type = "UpdateTransform"  -> TransformUpdated(ev.object_id, ev.transform, uid)
      [] ev.event_type = "UpdateProperties" -> PropertiesUpdated(ev.object_id, ev.properties, uid)
      [] ev.event_type = "UpdateName"       -> NameUpdated(ev.object_id, ev.name, uid)
      [] ev.event_type = "SelectObject"     -> UserSelected(uid, ev.object_id)

\* The arms CreateObject, DeleteObject, UpdateTransform, UpdateProperties and
\* UpdateName: get_mut takes the write guard of the session's shard (the arm
\* returns when the session is absent), the block runs, the guard is dropped
\* and the server event is broadcast to the session, nobody excluded.
Mutate(c) ==
    /\ pc[c] = "mutate"
    /\ LET t == task[c]
       IN  /\ lock[shard_of[t.sid]] = None
           /\ IF t.sid \in DOMAIN sessions
              THEN /\ sessions' = [sessions EXCEPT ![t.sid] = Apply(@, t.ev, t.uid, t.now)]
                   /\ task' = [task EXCEPT ![c] =
                                 Call(t, t.sid, Reply(t.ev, t.uid, t.now), None, "loop")]
                   /\ pc' = [pc EXCEPT ![c] = "broadcast"]
              ELSE /\ task' = [task EXCEPT ![c] = Idle]
                   /\ pc' = [pc EXCEPT ![c] = "loop"]
                   /\ UNCHANGED sessions
    /\ UNCHANGED <<connections, connection_meta, queue, written, lock, dropped,
                   next_uuid, frames, iter_order, shard_of>>

\* A selection that is set for every user of the session.
ApplySelectObjectAll(sess, ev, uid) ==
    [sess EXCEPT !.users = [u \in DOMAIN @ |-> [@[u] EXCEPT !.selected_object = ev.object_id]]]

\* websocket.rs:463-467: the acting user's selection, if the user is present, is set.
ApplySelectObject(sess, ev, uid) ==
    [sess EXCEPT !.users = IF uid \in DOMAIN @
                           THEN [@ EXCEPT ![uid].selected_object = ev.object_id]
                           ELSE @]

\* websocket.rs:458-483: under a read guard of the session's shard the selection
\* is set; then UserSelected is broadcast to the session, nobody excluded.
Select(c) ==
    /\ pc[c] = "select"
    /\ LET t == task[c]
       IN  /\ lock[shard_of[t.sid]] = None
           /\ sessions' = IF t.sid \in DOMAIN sessions
                          THEN [sessions EXCEPT ![t.sid] = ApplySelectObject(@, t.ev, t.uid)]
                          ELSE sessions
           /\ task' = [task EXCEPT ![c] = Call(t, t.sid, Reply(t.ev, t.uid, t.now), None, "loop")]
    /\ pc' = [pc EXCEPT ![c] = "broadcast"]
    /\ UNCHANGED <<connections, connection_meta, queue, written, lock, dropped,
                   next_uuid, frames, iter_order, shard_of>>

\* ------------------------------------------------------------ specifications

\* The steps every connection task takes besides receiving frames: it
\* registers, writes its queued items, joins, and fans its broadcasts out.
Run(c) ==
    \/ Open(c)
    \/ WriteOut(c)
    \/ JoinEntry(c)
    \/ JoinSend(c)
    \/ BroadcastVisit(c)

\* A client that sends any frame of EV at any time.
Serve(c, EV) ==
    \/ Run(c)
    \/ \E ev \in EV : RecvFrame(c, ev)

\* A client that joins session A once, and sends the frames of EV while joined.
Member(c, EV) ==
    \/ Run(c)
    \/ c \notin DOMAIN connection_meta /\ RecvFrame(c, JoinSession("A", "n"))
    \/ c \in DOMAIN connection_meta /\ \E ev \in EV : RecvFrame(c, ev)

\* The end of a connection: its transport closes or a write fails, and the
\* cleanup after the loop runs.
Teardown(c) ==
    \/ Close(c)
    \/ WriteFail(c)
    \/ CleanupMeta(c)
    \/ CleanupUsers(c)

Joins == {JoinSession(s, "n") : s \in SessionIds}

JoinA == JoinSession("A", "n")

Cube(o) == CreateObject(o, "n0", "Cube", "t0", None)

\* The two sessions in one shard of the sessions map, or in two.
OneShard == [s \in SessionIds |-> 1]

TwoShards == [s \in SessionIds |-> IF s = "A" THEN 1 ELSE 2]

Two == {"c1", "c2"}

\* Three connections that join and re-join: the first two session A, the third
\* session B.
NextJoin ==
    \/ \E c \in Two : Serve(c, {JoinSession("A", "n")})
    \/ Serve("c3", {JoinSession("B", "n")})

SpecJoin == InitOf(Conns, {OneShard, TwoShards}) /\ [][NextJoin]_vars

\* Two connections that join the two sessions and create an object.
NextIso == \E c \in Two : Serve(c, Joins \cup {Cube("o1")}) \/ Mutate(c)

SpecIso == InitOf(Two, {OneShard, TwoShards}) /\ [][NextIso]_vars

\* Two connections that join one session and leave it, by LeaveSession or by
\* the end of the connection.
NextLeave == \E c \in Two : Serve(c, {JoinA, LeaveSession}) \/ LeaveUsers(c) \/ Teardown(c)

SpecLeave == InitOf(Two, {OneShard}) /\ [][NextLeave]_vars

\* Two connections that join one session and create objects in it, each an
\* object of its own.
NextCreate ==
    \/ Member("c1", {Cube("o1")}) \/ Mutate("c1")
    \/ Member("c2", {Cube("o2")}) \/ Mutate("c2")

SpecCreate == InitOf(Two, {OneShard}) /\ [][NextCreate]_vars

\* The same clients under the scheduling of the runtime: a task that can take
\* a step of the server (a dispatch step, a try_send of a broadcast, a write of
\* a queued item) is eventually polled. Nothing obliges a client to open a
\* connection or to send a frame.
FairCreate ==
    /\ SpecCreate
    /\ \A c \in Two :
          /\ WF_vars(JoinEntry(c))
          /\ WF_vars(JoinSend(c))
          /\ WF_vars(Mutate(c))
          /\ WF_vars(BroadcastVisit(c))
          /\ WF_vars(WriteOut(c))

EvObjects ==
    {Cube("o1"), DeleteObject("o1"), UpdateTransform("o1", "t1"),
     UpdateProperties("o1", "p1"), UpdateName("o1", "n1"), SelectObject("o1")}

\* Two connections that join one session; the first creates, changes, deletes
\* and selects an object in it, the second watches.
NextObjects ==
    \/ Member("c1", EvObjects) \/ Mutate("c1") \/ Select("c1")
    \/ Serve("c2", {JoinSession("A", "n")})

SpecObjects == InitOf(Two, {OneShard}) /\ [][NextObjects]_vars

\* Two connections and one session: the first sends events of every kind,
\* bound or not; the second joins.
NextUnbound ==
    \/ Serve("c1", {JoinA, LeaveSession} \cup EvObjects)
    \/ Mutate("c1") \/ Select("c1") \/ LeaveUsers("c1")
    \/ Serve("c2", {JoinA})

SpecUnbound == InitOf(Two, {OneShard}) /\ [][NextUnbound]_vars

\* Texts that are no client event: not JSON, an unknown event_type, and a
\* CreateObject without its transform.
NotJson == [json |-> FALSE, event_type |-> None, payload |-> EmptyMap]

UnknownType == [json |-> TRUE, event_type |-> "Teleport", payload |-> [object_id |-> "o1"]]

MissingField ==
    [json |-> TRUE, event_type |-> "CreateObject",
     payload |-> [object_id |-> "o1", name |-> "n0", object_type |-> "Cube"]]

Malformed == {NotJson, UnknownType, MissingField}

\* Two connections and one session: the first sends malformed texts, before
\* it joins and after, and once joined creates objects and selects; the second
\* joins.
NextParse ==
    \/ Run("c1") \/ Mutate("c1") \/ Select("c1")
    \/ \E raw \in Malformed \cup {Text(JoinA)} : RecvText("c1", raw)
    \/ /\ "c1" \in DOMAIN connection_meta
       /\ \E raw \in {Text(Cube("o1")), Text(SelectObject("o1"))} : RecvText("c1", raw)
    \/ Serve("c2", {JoinA})

SpecParse == InitOf(Two, {OneShard}) /\ [][NextParse]_vars

\* Two connections and one session: the first joins, reads or does not, and
\* may close; the second joins and creates objects.  A task that is inside
\* broadcast, which has no suspension point, goes on to its end.
NextDrop ==
    \/ Run("c1") \/ Teardown("c1")
    \/ "c1" \notin DOMAIN connection_meta /\ RecvFrame("c1", JoinA)
    \/ Member("c2", {Cube("o1")}) \/ Mutate("c2")

SpecDrop == InitOf(Two, {OneShard}) /\ [][NextDrop]_vars

FairDrop == SpecDrop /\ \A c \in Two : WF_vars(BroadcastVisit(c))

\* Two members of one session that create, rename and delete one object
\* concurrently.
NextReplay ==
    \E c \in Two :
        \/ Member(c, {Cube("o1"), DeleteObject("o1"), UpdateName("o1", "n1")})
        \/ Mutate(c)

SpecReplay == InitOf(Two, {OneShard}) /\ [][NextReplay]_vars

\* Two sessions: a member of A creates, changes and deletes an object, present
\* or not, while a connection joins B and creates an object there.
EvMutators ==
    {Cube("o1"), DeleteObject("o1"), UpdateTransform("o1", "t1"),
     UpdateProperties("o1", "p1"), UpdateName("o1", "n1")}

NextLog ==
    \/ Member("c1", EvMutators) \/ Mutate("c1")
    \/ Serve("c2", {JoinSession("B", "n"), Cube("o2")}) \/ Mutate("c2")

SpecLog == InitOf(Two, {OneShard, TwoShards}) /\ [][NextLog]_vars

\* The clients of SpecDrop under the scheduling of the runtime: a task that
\* can take a step of a dispatch, of a broadcast or of the cleanup is
\* eventually polled.
FairClose ==
    /\ SpecDrop
    /\ \A c \in Two :
          /\ WF_vars(JoinEntry(c))
          /\ WF_vars(JoinSend(c))
          /\ WF_vars(Mutate(c))
          /\ WF_vars(BroadcastVisit(c))
          /\ WF_vars(CleanupMeta(c))
          /\ WF_vars(CleanupUsers(c))

\* A reference to an asset of a library.
AssetRef(o, aid, lib) ==
    [CreateObject(o, "n0", "AssetRef", "t0", None) EXCEPT !.asset_id = aid,
                                                           !.asset_library = lib]

\* A point light, and the text of an UpdateProperties whose power is a JSON
\* number beyond the range of f32.
PointLight(o) == CreateObject(o, "n0", "PointLight", "t0", "PointLight(1.0)")

PowerBeyondF32 ==
    [json |-> TRUE, event_type |-> "UpdateProperties",
     payload |-> [object_id |-> "o1", properties |-> "PointLight(1e39)"]]

\* Two connections and one session: the first joins and sends the texts of a
\* creation, of property updates and of a deselection; the second joins.
NextWire ==
    \/ Run("c1") \/ Mutate("c1") \/ Select("c1")
    \/ "c1" \notin DOMAIN connection_meta /\ RecvText("c1", Text(JoinA))
    \/ /\ "c1" \in DOMAIN connection_meta
       /\ \E raw \in {Text(PointLight("o1")), Text(SelectObject(None)), PowerBeyondF32,
                      Text(UpdateProperties("o1", "PointLight(1.0)"))} :
             RecvText("c1", raw)
    \/ Serve("c2", {JoinA})

SpecWire == InitOf(Two, {OneShard}) /\ [][NextWire]_vars

\* Two connections and one session: the first joins, creates, renames and
\* deletes an object, leaves and ends; the second joins once.
NextAppend ==
    \/ Member("c1", {Cube("o1"), UpdateName("o1", "n1"), DeleteObject("o1"), LeaveSession})
    \/ Mutate("c1") \/ LeaveUsers("c1") \/ Teardown("c1")
    \/ Run("c2")
    \/ "c2" \notin DOMAIN connection_meta /\ RecvFrame("c2", JoinA)

SpecAppend == InitOf(Two, {OneShard}) /\ [][NextAppend]_vars

\* Two connections: the first joins session A, creates two objects and
\* changes the transform, the properties and the name of the first; the
\* second joins session B.
NextUpdate ==
    \/ Member("c1", {Cube("o1"), Cube("o2"), UpdateTransform("o1", "t1"),
                     UpdateProperties("o1", "p1"), UpdateName("o1", "n1")})
    \/ Mutate("c1")
    \/ Serve("c2", {JoinSession("B", "n")})

SpecUpdate == InitOf(Two, {OneShard}) /\ [][NextUpdate]_vars

\* Two connections: the first joins session A and creates a cube, a point
\* light and a reference to an asset; the second joins session B.
NextStore ==
    \/ Member("c1", {Cube("o1"), PointLight("o1"), AssetRef("o2", "a1", "lib1")})
    \/ Mutate("c1")
    \/ Serve("c2", {JoinSession("B", "n")})

SpecStore == InitOf(Two, {OneShard}) /\ [][NextStore]_vars

\* A camera with its properties.
Camera(o) == CreateObject(o, "n0", "Camera", "t0", "Camera(50.0)")

\* Two connections and one session: the first joins, creates a cube and a
\* camera and sends point-light properties for the cube; the second joins.
NextProps ==
    \/ Member("c1", {Cube("o1"), Camera("o2"), UpdateProperties("o1", "PointLight(1.0)")})
    \/ Mutate("c1")
    \/ Serve("c2", {JoinA})

SpecProps == InitOf(Two, {OneShard}) /\ [][NextProps]_vars

\* Two connections: the first joins session A, creates an object, selects
\* it and deselects; the second joins either session.
NextSelect ==
    \/ Member("c1", {Cube("o1"), SelectObject("o1"), SelectObject(None)})
    \/ Mutate("c1") \/ Select("c1")
    \/ Serve("c2", Joins)

SpecSelect == InitOf(Two, {OneShard}) /\ [][NextSelect]_vars

\* Two connections: the first joins session A once and creates an object, the
\* second joins session A; the write of the first one's FullStateSync, and any
\* write of an item queued for it, may fail.
NextSyncFail ==
    \/ Member("c1", {Cube("o1")})
    \/ JoinSendFail("c1") \/ Mutate("c1")
    \/ WriteFail("c1") \/ CleanupMeta("c1") \/ CleanupUsers("c1")
    \/ Serve("c2", {JoinA})

SpecSyncFail == InitOf(Two, {OneShard}) /\ [][NextSyncFail]_vars

\* Two members of one session: the first creates, renames and deletes object
\* o1, the second creates object o2, concurrently.
NextFifo ==
    \/ Member("c1", {Cube("o1"), UpdateName("o1", "n1"), DeleteObject("o1")}) \/ Mutate("c1")
    \/ Member("c2", {Cube("o2")}) \/ Mutate("c2")

SpecFifo == InitOf(Two, {OneShard}) /\ [][NextFifo]_vars

\* Two connections and two sessions, in one shard of the session store or in
\* two: the first joins A, creates and selects an object and leaves; the second
\* joins B and creates an object; either connection may end at any time.
NextLocks ==
    \/ Serve("c1", {JoinA, LeaveSession, Cube("o1"), SelectObject("o1")})
    \/ Mutate("c1") \/ Select("c1") \/ LeaveUsers("c1") \/ Teardown("c1")
    \/ Serve("c2", {JoinSession("B", "n"), Cube("o2")})
    \/ Mutate("c2") \/ Teardown("c2")

SpecLocks == InitOf(Two, {OneShard, TwoShards}) /\ [][NextLocks]_vars

\* Two members of one session that create the same object, each once or more.
NextReplace == \E c \in Two : Member(c, {Cube("o1")}) \/ Mutate(c)

SpecReplace == InitOf(Two, {OneShard}) /\ [][NextReplace]_vars

\* Two connections and one session: the first joins, leaves by LeaveSession
\* and ends; the second joins and ends.
NextOnce ==
    \/ Member("c1", {LeaveSession}) \/ LeaveUsers("c1") \/ Teardown("c1")
    \/ Serve("c2", {JoinA}) \/ Teardown("c2")

SpecOnce == InitOf(Two, {OneShard}) /\ [][NextOnce]_vars

\* ------------------------------------------------------------------ claims

\* Everything handed to connection d so far, oldest first: the frames written
\* to its transport, then the items still in its channel.
Hist(d) == written[d] \o queue[d]

\* The number of items of seq whose text is json.
Times(seq, json) == Cardinality({k \in 1..Len(seq) : seq[k].json = json})

Last(seq) == seq[Len(seq)]

\* C1: session isolation.  An item produced in session A is never put into the
\* channel of, nor written to the transport of, a connection that is bound to
\* another session at that moment.
C1_Isolation ==
    [][\A c \in Conns :
         /\ (Len(queue'[c]) > Len(queue[c]) /\ c \in DOMAIN connection_meta)
               => Last(queue'[c]).session_id = connection_meta[c].sid
         /\ (Len(written'[c]) > Len(written[c]) /\ c \in DOMAIN connection_meta)
               => Last(written'[c]).session_id = connection_meta[c].sid]_vars

\* The number of times json was handed to try_send for connection d: the items
\* that reached its channel, and the items refused because it was full.
Got(d, json) == Times(Hist(d), json) + Times(dropped[d], json)

\* Connection d received, as the answer to the join that made its user v, a
\* snapshot that holds user u: it joined while u was a user of the session.
Knew(d, v, u) ==
    \E k \in 1..Len(written[d]) :
        LET j == written[d][k].json
        IN  /\ j.event_type = "FullStateSync"
            /\ {v, u} \subseteq DOMAIN j.session.users
            /\ \A w \in DOMAIN j.session.users : w <= v

\* Connection d is a member of session s that was bound, as it is now, before
\* user u was removed: it joined before u did, or its snapshot holds u.
Remaining(d, s, u) ==
    /\ d \in DOMAIN connection_meta
    /\ connection_meta[d].sid = s
    /\ connection_meta[d].uid # u
    /\ (connection_meta[d].uid < u \/ Knew(d, connection_meta[d].uid, u))

\* The state after user u of connection c has left session s: the user and the
\* binding are gone, and UserLeft(u) was handed exactly once to every
\* remaining member whose sink is registered, never to c, and to nobody twice.
LeftEffect(c, s, u) ==
    /\ s \in DOMAIN sessions
    /\ u \notin DOMAIN sessions[s].users
    /\ c \notin DOMAIN connection_meta
    /\ Got(c, UserLeft(u)) = 0
    /\ \A d \in Conns : Got(d, UserLeft(u)) <= 1
    /\ \A d \in Conns \ {c} :
          (Remaining(d, s, u) /\ d \in connections) => Got(d, UserLeft(u)) = 1

\* C2: when the loop of a bound connection ends without a LeaveSession, the
\* cleanup removes its user and its binding and hands exactly one UserLeft
\* with that user id to every remaining member of the session: the effect of
\* an explicit LeaveSession, whose completion is held to the same predicate.
C2_DisconnectIsLeave ==
    [][\A c \in Conns : \A s \in SessionIds : \A u \in 1..next_uuid :
         ( /\ pc[c] = "broadcast"
           /\ pc'[c] # "broadcast"
           /\ task[c].json = UserLeft(u)
           /\ task[c].sid = s )
         => LeftEffect(c, s, u)']_vars

\* A cleanup has run to its end for a connection that never sent LeaveSession
\* (the two frames handled are the two joins), and the member that remains
\* has had the UserLeft written to its transport.
C2_Witness ==
    \E c \in Conns : \E d \in Conns \ {c} : \E u \in 1..next_uuid :
        /\ pc[c] = "done"
        /\ frames = 2
        /\ d \in DOMAIN connection_meta
        /\ Times(written[d], UserLeft(u)) = 1

\* The mutate-and-log block of connection c runs in this step, for an event
\* of one of the kinds in types whose object id is not in the session's map.
OnAbsentObject(c, types) ==
    /\ pc[c] = "mutate"
    /\ pc'[c] # "mutate"
    /\ task[c].ev.event_type \in types
    /\ task[c].sid \in DOMAIN sessions
    /\ task[c].ev.object_id \notin DOMAIN sessions[task[c].sid].objects

\* What such a step is said to do: the object map is as it was, exactly one
\* LogEntry of the event is appended, and the arm ends without a broadcast.
LoggedOnly(c) ==
    /\ sessions'[task[c].sid].objects = sessions[task[c].sid].objects
    /\ sessions'[task[c].sid].event_log =
          Append(sessions[task[c].sid].event_log, LogEntry(task[c].ev, task[c].now))
    /\ pc'[c] = "loop"
    /\ task'[c] = Idle

\* C3: UpdateTransform, UpdateProperties or UpdateName on an object id that is
\* not in the session's map leaves the map unchanged, enqueues no
\* TransformUpdated, PropertiesUpdated or NameUpdated for anyone, and appends
\* exactly one LogEntry.
C3_AbsentUpdateSilent ==
    [][\A c \in Conns :
         OnAbsentObject(c, {"UpdateTransform", "UpdateProperties", "UpdateName"})
            => LoggedOnly(c)]_vars

\* C4: DeleteObject on an object id that is not in the session's map appends a
\* LogEntry, leaves the map unchanged and enqueues no ObjectDeleted for anyone.
C4_AbsentDeleteSilent ==
    [][\A c \in Conns : OnAbsentObject(c, {"DeleteObject"}) => LoggedOnly(c)]_vars

\* The object ids of the CreateObject entries of a log, in log order.
CreatedIds(log) == [k \in 1..Len(log) |-> log[k].payload.object_id]

\* The number of ObjectCreated events for object id o in a sequence of items.
CreatedTimes(seq, o) ==
    Cardinality({k \in 1..Len(seq) : /\ seq[k].json.event_type = "ObjectCreated"
                                     /\ seq[k].json.object.object_id = o})

\* The number of events of type ty in a sequence of items.
TypeTimes(seq, ty) == Cardinality({k \in 1..Len(seq) : seq[k].json.event_type = ty})

\* Every dispatch has completed and every queued item has been written.
Settled == \A c \in Conns : pc[c] \in {"init", "loop"} /\ queue[c] = <<>>

\* Connection d has been bound to session s since before the first event of
\* the session's log: the snapshot that answered its join has an empty log.
BoundThroughout(d, s) ==
    /\ d \in connections
    /\ d \in DOMAIN connection_meta
    /\ connection_meta[d].sid = s
    /\ \E k \in 1..Len(written[d]) :
          /\ written[d][k].json.event_type = "FullStateSync"
          /\ written[d][k].json.session.event_log = <<>>

\* With the N logged creations of session s pairwise distinct in their ids,
\* the map has exactly those ids, and a member bound throughout that lost no
\* item to a full queue has been written exactly N ObjectCreated, one per id.
AllCreated(s) ==
    LET log == sessions[s].event_log
        ids == CreatedIds(log)
    IN  (\A i, j \in 1..Len(log) : ids[i] = ids[j] => i = j)
        => /\ DOMAIN sessions[s].objects = {ids[k] : k \in 1..Len(log)}
           /\ Cardinality(DOMAIN sessions[s].objects) = Len(log)
           /\ \A d \in Conns :
                 (BoundThroughout(d, s) /\ dropped[d] = <<>>)
                 => /\ \A k \in 1..Len(log) : CreatedTimes(written[d], ids[k]) = 1
                    /\ TypeTimes(written[d], "ObjectCreated") = Len(log)

\* C5: after N CreateObject events with pairwise distinct ids, interleaved in
\* any way over the connections of a session, the object map has exactly
\* those N ids, and every connection bound throughout eventually has exactly
\* N ObjectCreated written, one per id, when no queue overflowed: the system
\* settles again and again, and whenever it has settled all of this holds.
C5_CreatesAllArrive ==
    /\ [](Settled => \A s \in DOMAIN sessions : AllCreated(s))
    /\ []<>Settled

\* Two creations with distinct ids, by two different connections, both bound
\* before the first of them, have settled with nothing dropped.
C5_Witness ==
    /\ Settled
    /\ "A" \in DOMAIN sessions
    /\ Len(sessions["A"].event_log) = 2
    /\ DOMAIN sessions["A"].objects = {"o1", "o2"}
    /\ \A d \in Two : BoundThroughout(d, "A") /\ dropped[d] = <<>>
    /\ \E k \in 1..Len(written["c1"]) : \E l \in 1..Len(written["c2"]) :
          /\ written["c1"][k].json.event_type = "ObjectCreated"
          /\ written["c2"][l].json.event_type = "ObjectCreated"
          /\ written["c1"][k].json.created_by # written["c2"][l].json.created_by

\* C6: the FullStateSync that answers a JoinSession carries the session's
\* objects, users and event log exactly as they are at the instant of the
\* join, the joiner's own new User among the users: the snapshot is the
\* session as the join leaves it, and it still is the session, object for
\* object, when it is written to the joiner's transport.
C6_SnapshotAtJoin ==
    [][\A c \in Conns : \A s \in SessionIds :
         /\ (pc[c] = "join" /\ pc'[c] = "join_send" /\ task[c].ev.session_id = s)
               => /\ task'[c].json = FullStateSync(sessions'[s])
                  /\ task'[c].uid \in DOMAIN sessions'[s].users
                  /\ task'[c].uid \notin
                        (IF s \in DOMAIN sessions THEN DOMAIN sessions[s].users ELSE {})
         /\ (pc[c] = "join_send" /\ pc'[c] # "join_send" /\ task[c].sid = s)
               => /\ Len(written'[c]) = Len(written[c]) + 1
                  /\ Last(written'[c]).json = FullStateSync(sessions[s])
                  /\ task[c].uid \in DOMAIN Last(written'[c]).json.session.users
                  /\ DOMAIN Last(written'[c]).json.session.objects
                        = DOMAIN sessions[s].objects]_vars

\* A connection that joined a session in which an object had been created has
\* been written a snapshot with that object, the log of its creation and two
\* users, itself among them.
C6_Witness ==
    \E k \in 1..Len(written["c2"]) :
        LET j == written["c2"][k].json
        IN  /\ j.event_type = "FullStateSync"
            /\ "o1" \in DOMAIN j.session.objects
            /\ j.session.event_log # <<>>
            /\ Cardinality(DOMAIN j.session.users) = 2
            /\ "c2" \in DOMAIN connection_meta
            /\ connection_meta["c2"].uid \in DOMAIN j.session.users

\* The user sets of the snapshots written to connection d.
SnapshotUsers(d) ==
    {DOMAIN written[d][k].json.session.users :
        k \in {i \in 1..Len(written[d]) : written[d][i].json.event_type = "FullStateSync"}}

\* The user ids in use or handed out so far, as far as anything shows them:
\* the users of every session, the user of every binding, the users of every
\* snapshot written, and the id of every join that is under way.
KnownUids ==
    UNION ( {DOMAIN sessions[s].users : s \in DOMAIN sessions}
            \cup {{connection_meta[d].uid} : d \in DOMAIN connection_meta}
            \cup {{task[d].uid} : d \in {x \in Conns : pc[x] = "join_send"}}
            \cup UNION {SnapshotUsers(d) : d \in Conns} )

\* C7: every JoinSession yields a freshly generated user id: the id of a join,
\* by any connection to any session, a repeated join of one connection
\* included, is the id of no earlier join and is in no session's users map.
C7_FreshUserId ==
    [][\A c \in Conns :
         (pc[c] = "join" /\ pc'[c] = "join_send")
            => /\ task'[c].uid \notin KnownUids
               /\ connection_meta'[c].uid = task'[c].uid
               /\ task'[c].uid \in DOMAIN sessions'[task'[c].sid].users]_vars

\* One connection has joined twice and another once: three users have been
\* made in session A, and a session B exists beside it.
C7_Witness ==
    /\ "A" \in DOMAIN sessions
    /\ "B" \in DOMAIN sessions
    /\ Cardinality(DOMAIN sessions["A"].users) = 3
    /\ \E c \in Conns : TypeTimes(written[c], "FullStateSync") = 2

\* The broadcast of the UserJoined of user u in session s by its joiner c
\* returns in this step.
JoinAnnounced(c, s, u) ==
    /\ pc[c] = "broadcast"
    /\ pc'[c] # "broadcast"
    /\ task[c].json.event_type = "UserJoined"
    /\ task[c].json.user_id = u
    /\ task[c].sid = s

\* Connection d was bound to session s before user u joined, is still bound
\* as it was, and its sink is registered.
EarlierMember(d, s, u) ==
    /\ d \in connections
    /\ d \in DOMAIN connection_meta
    /\ connection_meta[d].sid = s
    /\ connection_meta[d].uid < u

\* The routing of a join that does not depend on the state of the queues: the
\* FullStateSync goes to the transport of the joiner alone and into no queue,
\* and a UserJoined goes only into the queue of a connection other than the
\* joiner that is bound to the joiner's session.
JoinRouting ==
    \A x \in Conns :
       /\ (Len(written'[x]) > Len(written[x])
              /\ Last(written'[x]).json.event_type = "FullStateSync")
             => /\ pc[x] = "join_send"
                /\ Last(written'[x]).json = task[x].json
                /\ \A y \in Conns \ {x} : written'[y] = written[y]
       /\ Len(queue'[x]) > Len(queue[x])
             => /\ Last(queue'[x]).json.event_type # "FullStateSync"
                /\ Last(queue'[x]).json.event_type = "UserJoined"
                      => \E c \in Conns \ {x} :
                            /\ pc[c] = "broadcast"
                            /\ task[c].json = Last(queue'[x]).json
                            /\ x \in DOMAIN connection_meta
                            /\ connection_meta[x].sid = task[c].sid
                            /\ connection_meta[x].uid # task[c].json.user_id

\* C8 as it is stated: on JoinSession the FullStateSync is sent to the joiner
\* only, and a UserJoined with the new user id is enqueued for every other
\* connection bound to the same session, never for the joiner nor for a
\* connection bound to another session.
C8_AsStated ==
    [][/\ JoinRouting
       /\ \A c \in Conns : \A s \in SessionIds : \A u \in 1..next_uuid :
             JoinAnnounced(c, s, u)
                => /\ Times(Hist(c)', task[c].json) = 0
                   /\ \A d \in Conns \ {c} :
                         EarlierMember(d, s, u)' => Times(Hist(d)', task[c].json) = 1]_vars

\* C8, amended: on JoinSession the FullStateSync is sent to the joiner only,
\* and a UserJoined with the new user id is handed once to the sink of every
\* other connection bound to the same session, which enqueues it unless the
\* queue is full and then drops it; it is never enqueued for the joiner nor
\* for a connection bound to another session.
C8_JoinRouting ==
    [][/\ JoinRouting
       /\ \A d \in Conns :
             Len(dropped'[d]) > Len(dropped[d])
                => Len(queue[d]) = Capacity /\ queue'[d] = queue[d]
       /\ \A c \in Conns : \A s \in SessionIds : \A u \in 1..next_uuid :
             JoinAnnounced(c, s, u)
                => \A j \in {task[c].json} :
                      /\ Got(c, j)' = 0
                      /\ \A d \in Conns \ {c} :
                            EarlierMember(d, s, u)'
                               => /\ Got(d, j)' = 1
                                  /\ Times(dropped'[d], j) = 0
                                        => Times(Hist(d)', j) = 1]_vars

\* A second connection has joined session A: the first has been written its
\* UserJoined and the second has not, the second has been written a
\* FullStateSync, and a connection bound to session B has been written
\* nothing but its own FullStateSync.
C8_Witness ==
    /\ {"c1", "c2", "c3"} \subseteq DOMAIN connection_meta
    /\ connection_meta["c1"].sid = "A"
    /\ connection_meta["c2"].sid = "A"
    /\ connection_meta["c3"].sid = "B"
    /\ connection_meta["c1"].uid < connection_meta["c2"].uid
    /\ pc["c2"] = "loop"
    /\ Times(written["c1"], UserJoined(connection_meta["c2"].uid, "n")) = 1
    /\ Times(Hist("c2"), UserJoined(connection_meta["c2"].uid, "n")) = 0
    /\ TypeTimes(written["c2"], "FullStateSync") = 1
    /\ Len(written["c3"]) = 1
    /\ queue["c3"] = <<>>

\* The server event j is the one that corresponds to the client event ev of
\* the acting user uid: it carries the submitted object id and values and
\* that user id.
Corresponds(ev, uid, j) ==
    CASE ev.event_type = "CreateObject" ->
            /\ j.event_type = "ObjectCreated"
            /\ j.created_by = uid
            /\ j.object.object_id = ev.object_id
            /\ j.object.name = ev.name
            /\ j.object.object_type = ev.object_type
            /\ j.object.transform = ev.transform
            /\ j.object.properties = ev.properties
            /\ j.object.created_by = uid
      [] ev.event_type = "DeleteObject" ->
            j = [event_type |-> "ObjectDeleted", object_id |-> ev.object_id,
                 deleted_by |-> uid]
      [] ev.event_type = "UpdateTransform" ->
            j = [event_type |-> "TransformUpdated", object_id |-> ev.object_id,
                 transform |-> ev.transform, updated_by |-> uid]
      [] ev.event_type = "UpdateProperties" ->
            j = [event_type |-> "PropertiesUpdated", object_id |-> ev.object_id,
                 properties |-> ev.properties, updated_by |-> uid]
      [] ev.event_type = "UpdateName" ->
            j = [event_type |-> "NameUpdated", object_id |-> ev.object_id,
                 name |-> ev.name, updated_by |-> uid]
      [] ev.event_type = "SelectObject" ->
            j = [event_type |-> "UserSelected", user_id |-> uid,
                 object_id |-> ev.object_id]

\* The arm of an object event of the bound connection c runs its block in
\* this step: a CreateObject, a SelectObject, or a DeleteObject or Update* on
\* an object that is in the session's map.
OnObject(c) ==
    /\ pc[c] \in {"mutate", "select"}
    /\ pc'[c] # pc[c]
    /\ c \in DOMAIN connection_meta
    /\ connection_meta[c].sid \in DOMAIN sessions
    /\ \/ task[c].ev.event_type \in {"CreateObject", "SelectObject"}
       \/ task[c].ev.object_id \in DOMAIN sessions[connection_meta[c].sid].objects

\* The broadcast of connection c that announces an object event visits, in
\* this step, the entry d.
Visits(c, d) ==
    /\ pc[c] = "broadcast"
    /\ task[c].ret = "loop"
    /\ task[c].exclude = None
    /\ task'[c] # task[c]
    /\ d = iter_order[task[c].idx]

\* C9: for CreateObject, for DeleteObject, UpdateTransform, UpdateProperties
\* and UpdateName on an existing object, and for SelectObject, sent by a bound
\* connection, the corresponding server event, with the submitted object id
\* and values and the acting user id, is enqueued for every connection bound
\* to the session whose queue is not full, the sender included: the arm goes
\* on to broadcast that event to the sender's session, the broadcast visits
\* every entry once, and an entry that is bound to the session, whose sink is
\* registered and whose queue is not full, gets the event appended.
C9_AnnouncedToAll ==
    [][\A c \in Conns :
         /\ OnObject(c)
               => /\ pc'[c] = "broadcast"
                  /\ Corresponds(task[c].ev, connection_meta[c].uid, task'[c].json)
                  /\ task'[c].sid = connection_meta[c].sid
                  /\ task'[c].exclude = None
                  /\ task'[c].idx = 1
         /\ \A d \in Conns :
               Visits(c, d)
                  => /\ ( /\ d \in DOMAIN connection_meta
                          /\ connection_meta[d].sid = task[c].sid
                          /\ d \in connections
                          /\ Len(queue[d]) < Capacity )
                        => queue'[d] = Append(queue[d], Item(task[c].sid, task[c].json))
                     /\ IF task[c].idx < Len(iter_order)
                        THEN /\ pc'[c] = "broadcast"
                             /\ task'[c].idx = task[c].idx + 1
                             /\ task'[c].json = task[c].json
                             /\ task'[c].sid = task[c].sid
                        ELSE /\ pc'[c] = "loop"
                             /\ DOMAIN connection_meta
                                   \subseteq {iter_order[k] : k \in 1..Len(iter_order)}]_vars

\* An object has been created and deleted by one member while a second
\* watched: both events have been written to the transport of both, the
\* sender's included, with the sender as the acting user.
C9_Witness ==
    /\ {"c1", "c2"} \subseteq DOMAIN connection_meta
    /\ \A d \in Two :
          /\ \E now \in 1..MaxFrames :
                Times(written[d], ObjectCreated(SceneObject(Cube("o1"), connection_meta["c1"].uid, now),
                                                connection_meta["c1"].uid)) = 1
          /\ Times(written[d], ObjectDeleted("o1", connection_meta["c1"].uid)) = 1

\* C10: a client event other than JoinSession that arrives on a connection
\* with no binding, before its first join or after LeaveSession, is a no-op.
\* A frame on an unbound connection starts a join or nothing at all, and a
\* frame that starts nothing changes no session, no binding, no sink, no
\* queue and no transport.
C10_UnboundNoOp ==
    [][frames' # frames
         => /\ \A c \in Conns \ DOMAIN connection_meta :
                  \/ pc'[c] = pc[c] /\ task'[c] = task[c]
                  \/ pc[c] = "loop" /\ pc'[c] = "join"
            /\ (\A c \in Conns : pc'[c] # "join" \/ pc[c] = "join")
                  => \/ \E c \in DOMAIN connection_meta : pc'[c] # pc[c]
                     \/ UNCHANGED <<sessions, connections, connection_meta, queue, written,
                                    pc, task, lock, dropped, next_uuid>>
            /\ UNCHANGED <<sessions, connections, queue, written, dropped>>
            /\ \A c \in Conns \ DOMAIN connection_meta : c \notin DOMAIN connection_meta']_vars

\* Three frames have been handled on the one open connection, of which one
\* was its only join and one its LeaveSession: the third was an event other
\* than JoinSession that met no binding, and the connection is idle and
\* unbound, its user gone, nothing queued and nothing written but the one
\* snapshot.
C10_Witness ==
    /\ frames = 3
    /\ pc["c1"] = "loop"
    /\ pc["c2"] = "init"
    /\ connection_meta = EmptyMap
    /\ "A" \in DOMAIN sessions
    /\ sessions["A"].users = EmptyMap
    /\ sessions["A"].event_log = <<>>
    /\ sessions["A"].objects = EmptyMap
    /\ Len(written["c1"]) = 1
    /\ queue["c1"] = <<>>

\* C11: an inbound text frame that does not parse as a ClientEvent is
\* dropped: no session, binding or sink changes, nothing is enqueued for or
\* written to any connection, and the connection's loop goes on with its
\* binding as it was, where it takes the next frame.
C11_MalformedDropped ==
    [][\A c \in Conns : \A raw \in Malformed :
         RecvText(c, raw)
            => /\ ~parse_client_message(raw).ok
               /\ UNCHANGED <<sessions, connections, connection_meta, queue, written,
                              dropped, task, lock>>
               /\ pc'[c] = "loop"
               /\ frames' = frames + 1]_vars

\* The one open connection has had three frames, and they are, whatever their
\* order, its one join, one creation and a text that did not parse: it is bound
\* and idle, and has been written its snapshot and the one ObjectCreated.
C11_Witness ==
    /\ frames = 3
    /\ pc["c2"] = "init"
    /\ pc["c1"] = "loop"
    /\ "c1" \in DOMAIN connection_meta
    /\ Len(sessions["A"].event_log) = 1
    /\ Cardinality(DOMAIN sessions["A"].users) = 1
    /\ sessions["A"].users[connection_meta["c1"].uid].selected_object = None
    /\ TypeTimes(written["c1"], "FullStateSync") = 1
    /\ TypeTimes(written["c1"], "ObjectCreated") = 1
    /\ Len(written["c1"]) = 2
    /\ queue["c1"] = <<>>

\* The broadcast of the UserLeft of user u, whom connection c took out of
\* session s by LeaveSession, returns in this step.
LeaveDone(c, s, u) ==
    /\ pc[c] = "broadcast"
    /\ pc'[c] # "broadcast"
    /\ task[c].ret = "loop"
    /\ task[c].json = UserLeft(u)
    /\ task[c].sid = s

\* What LeaveSession does whatever the queues hold: the frame itself takes the
\* binding away, the user is removed under the session's guard, a UserLeft
\* goes only into the queue of a connection bound to the leaver's session,
\* and when the arm returns the user and the binding are gone and the
\* connection is registered and in its loop.
LeaveShape ==
    /\ \A c \in Conns :
          /\ (pc[c] = "loop" /\ pc'[c] = "leave") => c \notin DOMAIN connection_meta'
          /\ (pc[c] = "leave" /\ pc'[c] # "leave")
                => task[c].uid \notin DOMAIN sessions'[task[c].sid].users
          /\ \A s \in SessionIds : \A u \in 1..next_uuid :
                LeaveDone(c, s, u)
                   => /\ u \notin DOMAIN sessions'[s].users
                      /\ c \notin DOMAIN connection_meta'
                      /\ c \in connections'
                      /\ pc'[c] = "loop"
                      /\ \A j \in {task[c].json} : Got(c, j)' = 0
    /\ \A x \in Conns :
          (Len(queue'[x]) > Len(queue[x]) /\ Last(queue'[x]).json.event_type = "UserLeft")
             => /\ x \in DOMAIN connection_meta
                /\ connection_meta[x].sid = Last(queue'[x]).session_id
                /\ connection_meta[x].uid # Last(queue'[x]).json.user_id

\* C12 as it is stated: LeaveSession from a bound connection removes the
\* acting user and the binding and enqueues UserLeft with that user id for
\* every other connection bound to the session, not for the sender; the
\* connection stays registered and open.
C12_AsStated ==
    [][/\ LeaveShape
       /\ \A c \in Conns : \A s \in SessionIds : \A u \in 1..next_uuid :
             LeaveDone(c, s, u)
                => \A d \in Conns \ {c} :
                      (Remaining(d, s, u) /\ d \in connections)'
                         => Times(Hist(d)', task[c].json) = 1]_vars

\* C12, amended: LeaveSession from a bound connection removes the acting user
\* and the binding and hands UserLeft with that user id once to the sink of
\* every other connection bound to the session, which enqueues it unless the
\* queue is full and then drops it, and never to the sender; the connection
\* stays registered and open, and a JoinSession on it afterwards is answered
\* with a FullStateSync.
C12_LeaveSession ==
    [][/\ LeaveShape
       /\ \A d \in Conns :
             Len(dropped'[d]) > Len(dropped[d])
                => Len(queue[d]) = Capacity /\ queue'[d] = queue[d]
       /\ \A c \in Conns : \A s \in SessionIds : \A u \in 1..next_uuid :
             LeaveDone(c, s, u) => LeftEffect(c, s, u)'
       /\ \A c \in Conns :
             (pc[c] = "join_send" /\ pc'[c] # "join_send")
                => /\ Len(written'[c]) = Len(written[c]) + 1
                   /\ Last(written'[c]).json.event_type = "FullStateSync"]_vars

\* A connection has joined, left by LeaveSession and joined again: it is
\* registered, bound and in its loop with two snapshots written, and the
\* member that stayed has been written the UserLeft of its first user.
C12_Witness ==
    \E c \in Conns : \E d \in Conns \ {c} : \E u \in 1..next_uuid :
        /\ {c, d} \subseteq connections
        /\ {c, d} \subseteq DOMAIN connection_meta
        /\ pc[c] = "loop"
        /\ TypeTimes(written[c], "FullStateSync") = 2
        /\ connection_meta[c].uid > u
        /\ u \notin DOMAIN sessions["A"].users
        /\ Times(written[d], UserLeft(u)) = 1
        /\ Times(Hist(c), UserLeft(u)) = 0

\* The guards of the session store that the task of connection c holds.
Holds(c) == {h \in Shards : lock[h] = c}

\* C13: for every client event kind, JoinSession included, the dispatch has
\* released its exclusive handle on the session before it starts the
\* broadcast: no task is inside broadcast while it holds a guard of the
\* session store.
C13_NoGuardInBroadcast ==
    \A c \in Conns : pc[c] = "broadcast" => Holds(c) = {}

\* C14: no connection task holds a guard of the session store while it is
\* suspended waiting for an inbound frame or an outbound item, or writing to
\* its transport, the write of the FullStateSync inside the JoinSession
\* dispatch included.
C14_NoGuardWhileSuspended ==
    \A c \in Conns : pc[c] \in {"loop", "join_send"} => Holds(c) = {}

\* The session that the task of connection c is about to operate on, when it
\* stands before a step that needs the guard of that session's shard.
Wants(c) ==
    CASE pc[c] = "join" -> task[c].ev.session_id
      [] pc[c] \in {"mutate", "select", "leave", "cleanup_users"} -> task[c].sid
      [] OTHER -> None

\* C15: two mutators of different sessions never block each other: a dispatch
\* that operates on session A never stands waiting for a guard held by a
\* dispatch, join or cleanup that operates on a different session B.
C15_SessionsIndependent ==
    \A c \in Conns : \A d \in Conns \ {c} :
        (Wants(c) # None /\ lock[shard_of[Wants(c)]] = d) => task[d].sid = Wants(c)

\* The broadcast of connection c visits the entry d in this step.
VisitBy(c, d) ==
    /\ pc[c] = "broadcast"
    /\ task'[c] # task[c]
    /\ d = iter_order[task[c].idx]

\* One visit of a broadcast: a matching recipient whose sink is registered and
\* whose queue is not full gets the item appended and is counted; for a
\* matching recipient whose queue is full or whose sink is deregistered the
\* item is dropped, nothing is counted and nothing is tried again; no other
\* queue grows; the broadcast goes on to the next entry, or returns.
VisitShape(c, d) ==
    LET t    == task[c]
        hit  == Matches(t.sid, t.exclude, d)
        room == d \in connections /\ Len(queue[d]) < Capacity
        last == t.idx = Len(iter_order)
    IN  /\ (hit /\ room) => queue'[d] = Append(queue[d], Item(t.sid, t.json))
        /\ (hit /\ ~room) => queue'[d] = queue[d]
        /\ ~hit => Len(queue'[d]) <= Len(queue[d])
        /\ \A x \in Conns \ {d} : Len(queue'[x]) <= Len(queue[x])
        /\ written' = written
        /\ IF last
           THEN pc'[c] = t.ret
           ELSE /\ pc'[c] = "broadcast"
                /\ task'[c].idx = t.idx + 1
                /\ task'[c].count = t.count + (IF hit /\ room THEN 1 ELSE 0)
                /\ task'[c].json = t.json

RECURSIVE ReplayIds(_)
ReplayIds(log) ==
    IF log = <<>> THEN {}
    ELSE LET e    == log[Len(log)]
             prev == ReplayIds(SubSeq(log, 1, Len(log) - 1))
         IN  CASE e.event_type = "CreateObject" -> prev \cup {e.payload.object_id}
               [] e.event_type = "DeleteObject" -> prev \ {e.payload.object_id}
               [] OTHER -> prev

\* C17: mutate-and-log is atomic per session, so the log's order is the order
\* of application: whenever no dispatch holds the guard of a session, the ids
\* of its object map are the ids that replaying its event_log from empty, in
\* log order, leaves.
C17_LogReplaysToMap ==
    \A s \in DOMAIN sessions :
        lock[shard_of[s]] = None
           => DOMAIN sessions[s].objects = ReplayIds(sessions[s].event_log)

\* Two members have between them created an object and deleted it: the log
\* holds the creation by one and then the deletion by the other, the map is
\* empty, and no dispatch is under way.
C17_Witness ==
    /\ "A" \in DOMAIN sessions
    /\ lock[shard_of["A"]] = None
    /\ \A c \in Two : pc[c] = "loop"
    /\ sessions["A"].objects = EmptyMap
    /\ Len(sessions["A"].event_log) = 2
    /\ sessions["A"].event_log[1].event_type = "CreateObject"
    /\ sessions["A"].event_log[2].event_type = "DeleteObject"
    /\ \E u, v \in 1..next_uuid :
          /\ u # v
          /\ \E now \in 1..MaxFrames :
                Times(written["c1"], ObjectCreated(SceneObject(Cube("o1"), u, now), u)) = 1
          /\ Times(Hist("c1"), ObjectDeleted("o1", v)) = 1

\* Entry e is the log entry of the client event ev: tagged with its type and
\* carrying its payload, field for field.
EntryOf(e, ev) ==
    /\ e.event_type = ev.event_type
    /\ DOMAIN e.payload = (DOMAIN ev) \ {"event_type"}
    /\ \A k \in DOMAIN e.payload : e.payload[k] = ev[k]

\* C18: each CreateObject, DeleteObject, UpdateTransform, UpdateProperties and
\* UpdateName handled for a bound connection appends exactly one LogEntry to
\* the event_log of that connection's session, tagged with the event's type
\* and carrying its payload, whether or not the target object existed; no
\* other session's log changes, and no later step of the dispatch adds to
\* any log.
C18_OneLogEntry ==
    [][\A c \in Conns :
         /\ (pc[c] = "mutate" /\ pc'[c] # "mutate")
               => /\ task[c].sid = connection_meta[c].sid
                  /\ Len(sessions'[task[c].sid].event_log)
                        = Len(sessions[task[c].sid].event_log) + 1
                  /\ SubSeq(sessions'[task[c].sid].event_log, 1,
                            Len(sessions[task[c].sid].event_log))
                        = sessions[task[c].sid].event_log
                  /\ EntryOf(Last(sessions'[task[c].sid].event_log), task[c].ev)
                  /\ \A s \in DOMAIN sessions \ {task[c].sid} : sessions'[s] = sessions[s]
         /\ (pc[c] = "broadcast" /\ task'[c] # task[c])
               => \A s \in DOMAIN sessions :
                     sessions'[s].event_log = sessions[s].event_log]_vars

\* Session A's log holds the rename or the deletion of an object that never
\* was in the map, and session B, where an object was created meanwhile, holds
\* the one entry of that creation.
C18_Witness ==
    /\ {"A", "B"} \subseteq DOMAIN sessions
    /\ sessions["A"].objects = EmptyMap
    /\ Len(sessions["A"].event_log) = 1
    /\ sessions["A"].event_log[1].event_type \in {"UpdateName", "DeleteObject"}
    /\ sessions["A"].event_log[1].payload.object_id = "o1"
    /\ Len(sessions["B"].event_log) = 1
    /\ sessions["B"].event_log[1].event_type = "CreateObject"
    /\ DOMAIN sessions["B"].objects = {"o2"}

\* The event_log of session s, empty while the session does not exist.
LogOf(S, s) == IF s \in DOMAIN S THEN S[s].event_log ELSE <<>>

\* C19: every state-mutating event handled for a connection, SelectObject,
\* JoinSession and LeaveSession included, appends a LogEntry with its payload
\* to the event_log of the session before its server event is broadcast: the
\* step of the dispatch that changes the session, which precedes the
\* broadcast, leaves the log one entry longer, and that entry is the event's.
C19_EveryEventLogged ==
    [][\A c \in Conns :
         (pc[c] \in {"mutate", "select", "join", "leave"} /\ pc'[c] # pc[c])
            => \A s \in {task'[c].sid} :
                  /\ Len(LogOf(sessions', s)) = Len(LogOf(sessions, s)) + 1
                  /\ EntryOf(Last(LogOf(sessions', s)), task[c].ev)]_vars

\* No dispatch and no cleanup is in progress.
Quiescent ==
    /\ \A c \in Conns : pc[c] \in {"init", "loop", "done"}
    /\ \A h \in Shards : lock[h] = None

\* The user ids of the bindings to session s.
BoundUids(s) ==
    {connection_meta[d].uid : d \in {e \in DOMAIN connection_meta : connection_meta[e].sid = s}}

\* C20: a User exists in a session's users map exactly while some connection
\* is bound to that (session, user): whenever no dispatch or cleanup is in
\* progress, the users of each session are exactly the user ids of the
\* bindings to it, and a connection whose cleanup has run has no binding, so
\* that no user of any of its joins remains.
C20_UsersAreBindings ==
    Quiescent =>
        /\ \A s \in DOMAIN sessions : DOMAIN sessions[s].users = BoundUids(s)
        /\ \A c \in Conns : pc[c] = "done" => c \notin DOMAIN connection_meta

\* The loop of connection c has ended: the task is in the cleanup after it,
\* in the broadcast of that cleanup, or at its end.
LoopEnded(c) ==
    \/ pc[c] \in {"cleanup", "cleanup_users", "done"}
    \/ pc[c] = "broadcast" /\ task[c].ret = "done"

EndStep(c) ==
    \/ pc[c] = "loop" /\ pc'[c] = "cleanup"
    \/ LoopEnded(c) /\ (pc'[c] # pc[c] \/ task'[c] # task[c])

\* The user records of connection d under the session map S and the
\* bindings M: one record, or none.
UserOf(S, M, d) ==
    IF /\ d \in DOMAIN M
       /\ M[d].sid \in DOMAIN S
       /\ M[d].uid \in DOMAIN S[M[d].sid].users
    THEN {S[M[d].sid].users[M[d].uid]}
    ELSE {}

\* C22: the end of one connection and its cleanup leave every other
\* connection's sink registration, binding, user record and loop state
\* unchanged and every session's objects and event_log unchanged; the only
\* effect on another connection is the UserLeft of the ended connection's
\* user, enqueued (or refused by a full queue) for a member of its session.
C22_CloseAffectsOnlyItself ==
    [][\A c \in Conns : EndStep(c) =>
          /\ \A s \in DOMAIN sessions :
                /\ s \in DOMAIN sessions'
                /\ sessions'[s].objects = sessions[s].objects
                /\ sessions'[s].event_log = sessions[s].event_log
          /\ DOMAIN sessions' = DOMAIN sessions
          /\ \A d \in Conns \ {c} :
                /\ (d \in connections') = (d \in connections)
                /\ (d \in DOMAIN connection_meta') = (d \in DOMAIN connection_meta)
                /\ d \in DOMAIN connection_meta => connection_meta'[d] = connection_meta[d]
                /\ UserOf(sessions', connection_meta', d) = UserOf(sessions, connection_meta, d)
                /\ pc'[d] = pc[d]
                /\ task'[d] = task[d]
                /\ written'[d] = written[d]
                /\ \/ queue'[d] = queue[d] /\ dropped'[d] = dropped[d]
                   \/ /\ pc[c] = "broadcast"
                      /\ d \in DOMAIN connection_meta
                      /\ connection_meta[d].sid = task[c].sid
                      /\ task[c].json = UserLeft(task[c].uid)
                      /\ \/ /\ queue'[d] = Append(queue[d], Item(task[c].sid, task[c].json))
                            /\ dropped'[d] = dropped[d]
                         \/ /\ queue'[d] = queue[d]
                            /\ dropped'[d] = Append(dropped[d], Item(task[c].sid, task[c].json))]_vars

\* A connection has ended while bound; the other member, whose object and
\* its log entry are in the session, is still registered and bound, has its
\* user record and has been handed the UserLeft.
C22_Witness ==
    /\ pc["c1"] = "done"
    /\ "c2" \in connections
    /\ pc["c2"] = "loop"
    /\ "c2" \in DOMAIN connection_meta
    /\ UserOf(sessions, connection_meta, "c2") = {NewUser("n")}
    /\ DOMAIN sessions["A"].objects = {"o1"}
    /\ Len(sessions["A"].event_log) = 1
    /\ TypeTimes(Hist("c2"), "UserLeft") = 1

\* The join of connection c takes its entry in this step.
Enters(c) == pc[c] = "join" /\ pc'[c] # "join"

\* Field f of session s before a step, that of an empty session while s does
\* not exist.
Prior(s, f) ==
    IF s \in DOMAIN sessions THEN sessions[s][f]
    ELSE IF f = "event_log" THEN <<>> ELSE EmptyMap

\* C23: session creation is an atomic get-or-create.  Of the joins that name
\* a key, concurrent or not, only one that finds no session creates one, and
\* it creates it empty; every other finds the session as it is and adds its
\* user to it, so that no user of an earlier join, no object and no log entry
\* is lost; when all joins have completed every user id generated is in the
\* users map of a session, and every connection's user in that of its own.
C23_GetOrCreate ==
    /\ [][\A c \in Conns : Enters(c) =>
             \A s \in {task[c].ev.session_id} :
                /\ DOMAIN sessions' = DOMAIN sessions \cup {s}
                /\ \A x \in DOMAIN sessions \ {s} : sessions'[x] = sessions[x]
                /\ next_uuid' \notin DOMAIN Prior(s, "users")
                /\ DOMAIN sessions'[s].users = DOMAIN Prior(s, "users") \cup {next_uuid'}
                /\ \A u \in DOMAIN Prior(s, "users") :
                      sessions'[s].users[u] = Prior(s, "users")[u]
                /\ sessions'[s].objects = Prior(s, "objects")
                /\ sessions'[s].event_log = Prior(s, "event_log")]_vars
    /\ []((\A c \in Conns : pc[c] \in {"init", "loop"}) =>
            /\ next_uuid = frames
            /\ \A u \in 1..next_uuid : \E s \in DOMAIN sessions : u \in DOMAIN sessions[s].users
            /\ \A c \in DOMAIN connection_meta :
                  connection_meta[c].uid \in DOMAIN sessions[connection_meta[c].sid].users)

\* Two connections sent their first JoinSession for session A; both joins
\* have completed and the session holds the users of both.
C23_Witness ==
    /\ frames = 2
    /\ \A c \in Two : pc[c] = "loop" /\ c \in DOMAIN connection_meta
    /\ "A" \in DOMAIN sessions
    /\ DOMAIN sessions["A"].users = {connection_meta[c].uid : c \in Two}
    /\ Cardinality(DOMAIN sessions["A"].users) = 2

\* The client event ev, written as a text and parsed, is ev again, and written
\* again is the same text.
RoundTripClient(ev) ==
    LET r == parse_client_message(Text(ev))
    IN  r.ok /\ r.event = ev /\ Text(r.event) = Text(ev)

\* The same for the server event ev.
RoundTripServer(ev) ==
    LET r == from_str(to_string(ev))
    IN  r.ok /\ r.event = ev /\ to_string(r.event) = to_string(ev)

\* C24: every ClientEvent and every ServerEvent value, serialized to its wire
\* form and parsed back, yields a value equal to the original field for
\* field, and re-serializing the parsed value gives the same wire text: so it
\* is for every client event the server holds in a dispatch and for every
\* server event it has handed to a connection.
C24_RoundTrip ==
    /\ \A c \in Conns :
          pc[c] \in {"join", "join_send", "mutate", "select", "leave"}
             => RoundTripClient(task[c].ev)
    /\ \A d \in Conns : \A k \in 1..Len(Hist(d)) : RoundTripServer(Hist(d)[k].json)

\* Sequence p is a prefix of sequence q.
IsPrefix(p, q) == Len(p) <= Len(q) /\ SubSeq(q, 1, Len(p)) = p

\* C25: the event_log of a session is append-only: no step, of a join, a
\* leave, a disconnect cleanup, a deletion or an update, removes the session
\* or removes, reorders or rewrites an entry of its log; the log before the
\* step is a prefix of the log after it, and so of the log in every later state.
C25_LogAppendOnly ==
    [][\A s \in DOMAIN sessions :
          /\ s \in DOMAIN sessions'
          /\ IsPrefix(sessions[s].event_log, sessions'[s].event_log)]_vars

\* The log holds a creation, a rename and the deletion of the object, in this
\* order, and the connection that sent them has ended.
C25_Witness ==
    /\ "A" \in DOMAIN sessions
    /\ Len(sessions["A"].event_log) = 3
    /\ sessions["A"].event_log[1].event_type = "CreateObject"
    /\ sessions["A"].event_log[2].event_type = "UpdateName"
    /\ sessions["A"].event_log[3].event_type = "DeleteObject"
    /\ pc["c1"] = "done"

\* C26: the outbound queue of every connection is bounded: in every reachable
\* state it holds at most as many pending messages as the channel has slots,
\* however many broadcasts there are and however slowly the connection
\* drains its queue.
C26_QueueBounded == \A c \in Conns : Len(queue[c]) <= Capacity

\* The queue of a connection that reads nothing is full, and a broadcast to
\* it has been refused since.
C26_Witness ==
    \E c \in Conns :
        /\ written[c] = <<>> \/ \A k \in 1..Len(written[c]) :
                                   written[c][k].json.event_type = "FullStateSync"
        /\ Len(queue[c]) = Capacity
        /\ dropped[c] # <<>>

\* The field of an object that an update event replaces.
Target(ty) ==
    CASE ty = "UpdateTransform"  -> "transform"
      [] ty = "UpdateProperties" -> "properties"
      [] ty = "UpdateName"       -> "name"

\* C27: an UpdateTransform, UpdateProperties or UpdateName whose object is
\* present replaces exactly the targeted field of exactly the targeted
\* object and sets its last_updated_by to the acting user and its
\* last_updated_at to the timestamp of the operation, which is that of its
\* log entry; the other fields of the object, its id and created_by among
\* them, every other object of the session, the users of the session and
\* every other session are unchanged.
C27_UpdateTouchesOneField ==
    [][\A c \in Conns :
         (/\ pc[c] = "mutate"
          /\ pc'[c] # "mutate"
          /\ task[c].ev.event_type \in {"UpdateTransform", "UpdateProperties", "UpdateName"}
          /\ task[c].sid \in DOMAIN sessions
          /\ task[c].ev.object_id \in DOMAIN sessions[task[c].sid].objects)
         => \A s \in {task[c].sid} : \A o \in {task[c].ev.object_id} :
              \A f \in {Target(task[c].ev.event_type)} :
               /\ DOMAIN sessions' = DOMAIN sessions
               /\ \A x \in DOMAIN sessions \ {s} : sessions'[x] = sessions[x]
               /\ sessions'[s].users = sessions[s].users
               /\ DOMAIN sessions'[s].objects = DOMAIN sessions[s].objects
               /\ \A x \in DOMAIN sessions[s].objects \ {o} :
                     sessions'[s].objects[x] = sessions[s].objects[x]
               /\ DOMAIN sessions'[s].objects[o] = DOMAIN sessions[s].objects[o]
               /\ \A g \in DOMAIN sessions[s].objects[o] :
                     sessions'[s].objects[o][g] =
                        IF g = f THEN task[c].ev[f]
                        ELSE IF g = "last_updated_by" THEN connection_meta[c].uid
                        ELSE IF g = "last_updated_at"
                        THEN Last(sessions'[s].event_log).timestamp
                        ELSE sessions[s].objects[o][g]
               /\ Last(sessions'[s].event_log).timestamp = task[c].now
               /\ task[c].now > 0]_vars

\* Of the two objects of session A the first has got a new transform, by an
\* update later than its creation; the second is as it was created.
C27_Witness ==
    /\ "A" \in DOMAIN sessions
    /\ DOMAIN sessions["A"].objects = {"o1", "o2"}
    /\ sessions["A"].objects["o1"].transform = "t1"
    /\ sessions["A"].objects["o1"].name = "n0"
    /\ sessions["A"].objects["o1"].last_updated_at = 4
    /\ sessions["A"].objects["o2"].transform = "t0"
    /\ sessions["A"].objects["o2"].last_updated_at < 4

\* The fields of an object that come from the payload of its creation.
PayloadFields ==
    {"object_id", "name", "object_type", "asset_id", "asset_library", "transform",
     "properties"}

\* C28: a CreateObject from a bound connection stores, under the object id
\* of the payload and in the session of the sender only, an object whose
\* name, type, asset references, transform and properties are those of the
\* payload and whose created_by and last_updated_by are the acting user; the
\* object of the ObjectCreated that is broadcast is the object stored.
C28_CreateStoresPayload ==
    [][\A c \in Conns :
         (/\ pc[c] = "mutate"
          /\ pc'[c] # "mutate"
          /\ task[c].ev.event_type = "CreateObject"
          /\ task[c].sid \in DOMAIN sessions)
         => \A s \in {task[c].sid} : \A o \in {task[c].ev.object_id} :
               /\ s = connection_meta[c].sid
               /\ DOMAIN sessions' = DOMAIN sessions
               /\ \A x \in DOMAIN sessions \ {s} : sessions'[x] = sessions[x]
               /\ DOMAIN sessions'[s].objects = DOMAIN sessions[s].objects \cup {o}
               /\ \A x \in DOMAIN sessions[s].objects \ {o} :
                     sessions'[s].objects[x] = sessions[s].objects[x]
               /\ PayloadFields \subseteq DOMAIN sessions'[s].objects[o]
               /\ \A g \in PayloadFields : sessions'[s].objects[o][g] = task[c].ev[g]
               /\ sessions'[s].objects[o].created_by = connection_meta[c].uid
               /\ sessions'[s].objects[o].last_updated_by = connection_meta[c].uid
               /\ pc'[c] = "broadcast"
               /\ task'[c].sid = s
               /\ task'[c].json.event_type = "ObjectCreated"
               /\ task'[c].json.object = sessions'[s].objects[o]
               /\ task'[c].json.created_by = connection_meta[c].uid]_vars

\* Session A holds the reference to an asset and the point light that its
\* member created, each with the fields of its payload, while session B,
\* joined meanwhile, holds no object.
C28_Witness ==
    /\ {"A", "B"} \subseteq DOMAIN sessions
    /\ DOMAIN sessions["A"].objects = {"o1", "o2"}
    /\ sessions["A"].objects["o2"].asset_id = "a1"
    /\ sessions["A"].objects["o2"].asset_library = "lib1"
    /\ sessions["A"].objects["o1"].properties = "PointLight(1.0)"
    /\ sessions["B"].objects = EmptyMap
    /\ TypeTimes(Hist("c1"), "ObjectCreated") = 2

\* The variant of a Properties value, None for no value.
Variant(p) ==
    CASE p = None                                   -> None
      [] p \in {"PointLight(1.0)", "PointLight(inf)"} -> "PointLight"
      [] p = "Camera(50.0)"                         -> "Camera"
      [] OTHER                                      -> "Opaque"

\* The variants an object of type ty may carry.
Allowed(ty) ==
    CASE ty = "Camera" -> {"Camera", None}
      [] ty \in {"PointLight", "SpotLight", "AreaLight", "SunLight"} -> {ty, None}
      [] OTHER -> {None}

\* C29: in every reachable state every object stored in any session carries
\* a Properties payload whose variant matches the category of its type: a
\* camera carries camera properties or none, a light those of its own type,
\* and a cube, a sphere or a cylinder none, whatever CreateObject and
\* UpdateProperties events were handled.
C29_PropertiesMatchType ==
    \A s \in DOMAIN sessions : \A o \in DOMAIN sessions[s].objects :
        Variant(sessions[s].objects[o].properties) \in Allowed(sessions[s].objects[o].object_type)

\* C30: a SelectObject from a bound connection sets the selected_object of
\* the acting user to the id given, or to none, and changes nothing else: no
\* other field of that user, no other user, no object, no log, no binding and
\* no other session; the UserSelected that is broadcast to the session
\* carries the acting user's id and the same id or none.
C30_SelectSetsOwnSelection ==
    [][\A c \in Conns :
         (pc[c] = "select" /\ pc'[c] # "select")
         => \A s \in {connection_meta[c].sid} : \A u \in {connection_meta[c].uid} :
               /\ s \in DOMAIN sessions
               /\ u \in DOMAIN sessions[s].users
               /\ DOMAIN sessions' = DOMAIN sessions
               /\ \A x \in DOMAIN sessions \ {s} : sessions'[x] = sessions[x]
               /\ sessions'[s].objects = sessions[s].objects
               /\ sessions'[s].event_log = sessions[s].event_log
               /\ DOMAIN sessions'[s].users = DOMAIN sessions[s].users
               /\ \A x \in DOMAIN sessions[s].users \ {u} :
                     sessions'[s].users[x] = sessions[s].users[x]
               /\ DOMAIN sessions'[s].users[u] = DOMAIN sessions[s].users[u]
               /\ \A g \in DOMAIN sessions[s].users[u] :
                     sessions'[s].users[u][g] =
                        IF g = "selected_object" THEN task[c].ev.object_id
                        ELSE sessions[s].users[u][g]
               /\ connection_meta' = connection_meta
               /\ connections' = connections
               /\ pc'[c] = "broadcast"
               /\ task'[c].sid = s
               /\ task'[c].exclude = None
               /\ DOMAIN task'[c].json = {"event_type", "user_id", "object_id"}
               /\ task'[c].json.event_type = "UserSelected"
               /\ task'[c].json.user_id = u
               /\ task'[c].json.object_id = task[c].ev.object_id]_vars

\* Of the two users of session A the one that selected the object has it
\* selected and the other has nothing selected; the other's connection has
\* been handed the UserSelected.
C30_Witness ==
    /\ {"c1", "c2"} \subseteq DOMAIN connection_meta
    /\ connection_meta["c2"].sid = "A"
    /\ DOMAIN sessions["A"].users = {connection_meta["c1"].uid, connection_meta["c2"].uid}
    /\ sessions["A"].users[connection_meta["c1"].uid].selected_object = "o1"
    /\ sessions["A"].users[connection_meta["c2"].uid].selected_object = None
    /\ Times(Hist("c2"), UserSelected(connection_meta["c1"].uid, "o1")) = 1

\* The FullStateSync of connection c's present binding never reached its
\* transport: c is bound, its JoinSession arm is past the write, and nothing
\* written to c is a FullStateSync that lists c's user.
SyncLost(c) ==
    /\ c \in DOMAIN connection_meta
    /\ pc[c] \notin {"join_send", "cleanup", "cleanup_users", "done"}
    /\ ~ \E k \in 1..Len(written[c]) :
            /\ written[c][k].json.event_type = "FullStateSync"
            /\ connection_meta[c].uid \in DOMAIN written[c][k].json.session.users

\* A step in which connection c's loop takes an inbound frame to dispatch.
Dispatches(c) == pc[c] = "loop" /\ pc'[c] \in {"join", "leave", "select", "mutate"}

\* C31: any failed write to a connection's transport ends that connection's
\* loop and starts its cleanup. A queued item taken from the channel and not
\* written sends the task to cleanup; a JoinSession arm that leaves "join_send"
\* without having written the FullStateSync does not return to the loop; and a
\* connection whose FullStateSync was lost dispatches no further inbound frame.
C31_FailedWriteEndsLoop ==
    [][\A c \in Conns :
        /\ (pc[c] = "loop" /\ queue[c] # <<>> /\ queue'[c] = Tail(queue[c])
                /\ written'[c] = written[c])
              => pc'[c] = "cleanup"
        /\ (pc[c] = "join_send" /\ pc'[c] # pc[c] /\ written'[c] = written[c])
              => task'[c].ret = "cleanup"
        /\ SyncLost(c) => ~ Dispatches(c)]_vars

\* C31, queued writes alone: a queued item taken from the channel and not
\* written to the transport ends the loop and deregisters the sink.
C31_QueuedWriteFailureEndsLoop ==
    [][\A c \in Conns :
        (pc[c] = "loop" /\ queue[c] # <<>> /\ queue'[c] = Tail(queue[c])
            /\ written'[c] = written[c])
          => (pc'[c] = "cleanup" /\ c \notin connections')]_vars

\* C31: a connection whose FullStateSync write failed is back in its loop with
\* an object it created afterwards in the session.
C31_DispatchedAfterFailure ==
    /\ SyncLost("c1")
    /\ pc["c1"] = "loop"
    /\ "A" \in DOMAIN sessions
    /\ "o1" \in DOMAIN sessions["A"].objects

\* Sequence a is b with some items left out: no item added, doubled or moved.
RECURSIVE IsSubseq(_, _)
IsSubseq(a, b) ==
    IF a = <<>> THEN TRUE
    ELSE IF b = <<>> THEN FALSE
    ELSE IF Head(a) = Head(b) THEN IsSubseq(Tail(a), Tail(b))
    ELSE IsSubseq(a, Tail(b))

\* Server event j announces a change of object o.
About(j, o) ==
    \/ j.event_type = "ObjectCreated" /\ j.object.object_id = o
    \/ /\ j.event_type \in {"ObjectDeleted", "TransformUpdated", "PropertiesUpdated",
                             "NameUpdated"}
       /\ j.object_id = o

\* The server events about object o among seq, in the order of seq.
EventsAbout(seq, o) ==
    LET sel == SelectSeq(seq, LAMBDA it : About(it.json, o))
    IN  [k \in 1..Len(sel) |-> sel[k].json]

\* The client event that log entry e records.
Logged(e) ==
    [k \in {"event_type"} \cup DOMAIN e.payload |->
        IF k = "event_type" THEN e.event_type ELSE e.payload[k]]

\* The server events of the client events about object o that user u had
\* dispatched in session s, in the order of their dispatch: the order of
\* their entries in the session's log.
DispatchedAbout(s, o, u) ==
    LET sel == SelectSeq(LogOf(sessions, s), LAMBDA e : e.payload.object_id = o)
    IN  [k \in 1..Len(sel) |-> Reply(Logged(sel[k]), u, sel[k].timestamp)]

\* The object that only connection c sends events about, in SpecFifo.
Own(c) == IF c = "c1" THEN "o1" ELSE "o2"

\* C32: per-sender FIFO.  For every recipient d and every sender c, the server
\* events originating from c that were written to d's transport, and with
\* them those still in d's channel, are in the order in which c's client
\* events were dispatched: some may be missing, none is doubled or moved.
C32_PerSenderFifo ==
    \A d \in Two : \A c \in Two \cap DOMAIN connection_meta :
        /\ IsSubseq(EventsAbout(written[d], Own(c)),
                    DispatchedAbout("A", Own(c), connection_meta[c].uid))
        /\ IsSubseq(EventsAbout(Hist(d), Own(c)),
                    DispatchedAbout("A", Own(c), connection_meta[c].uid))

\* C32: the second member has been written the creation and then the renaming
\* of o1, in the order the first member sent them.
C32_Witness ==
    /\ "c1" \in DOMAIN connection_meta
    /\ Len(EventsAbout(written["c2"], "o1")) = 2
    /\ EventsAbout(written["c2"], "o1")[1].event_type = "ObjectCreated"
    /\ EventsAbout(written["c2"], "o1")[2].event_type = "NameUpdated"

\* C32: events of different senders reach a recipient in an order other than
\* that of the session log: o1 is logged before o2, and the first member is
\* written the creation of o2 before that of o1.
C32_SendersInterleave ==
    /\ Len(LogOf(sessions, "A")) = 2
    /\ LogOf(sessions, "A")[1].payload.object_id = "o1"
    /\ LogOf(sessions, "A")[2].payload.object_id = "o2"
    /\ \E i, k \in 1..Len(written["c1"]) :
          /\ i < k
          /\ About(written["c1"][i].json, "o2")
          /\ About(written["c1"][k].json, "o1")

\* The user ids of session s in the sessions map S.
UsersOf(S, s) == IF s \in DOMAIN S THEN DOMAIN S[s].users ELSE {}

\* A step in which the task of connection c enters the broadcast of UserLeft(u).
StartsLeft(c, u) ==
    /\ pc[c] # "broadcast"
    /\ pc'[c] = "broadcast"
    /\ task'[c].json = UserLeft(u)

\* C33: for every user id, UserLeft is broadcast at most once over the whole
\* run and the user is removed from a users map at most once.  No connection
\* is ever handed a second UserLeft of one user and no two tasks broadcast
\* it at once; every broadcast of UserLeft(u) starts in the step that takes
\* u out of the users map, u leaves the map in no other step, and a user
\* that has left never returns, so neither a LeaveSession followed by the
\* end of the connection nor a racing cleanup repeats either.
C33_UserLeftOnce ==
    /\ [](\A u \in 1..next_uuid :
            /\ \A d \in Conns : Got(d, UserLeft(u)) <= 1
            /\ Cardinality({c \in Conns : pc[c] = "broadcast"
                                           /\ task[c].json = UserLeft(u)}) <= 1)
    /\ [][\A u \in 1..next_uuid :
            /\ \A c \in Conns :
                  StartsLeft(c, u)
                     => \E s \in SessionIds :
                           u \in UsersOf(sessions, s) /\ u \notin UsersOf(sessions', s)
            /\ \A s \in SessionIds :
                  /\ u \notin UsersOf(sessions, s) => u \notin UsersOf(sessions', s)
                  /\ (u \in UsersOf(sessions, s) /\ u \notin UsersOf(sessions', s))
                        => \E c \in Conns : StartsLeft(c, u)]_vars

\* C33: a connection that left by LeaveSession is ending: its loop is over,
\* its binding was gone before the cleanup looked for it, its user is out of
\* the session, and the member that remains was written the one UserLeft.
C33_Witness ==
    \E c \in Conns : \E d \in Conns \ {c} : \E u \in 1..next_uuid :
        /\ pc[c] = "cleanup"
        /\ c \notin DOMAIN connection_meta
        /\ Remaining(d, "A", u)
        /\ u \notin UsersOf(sessions, "A")
        /\ Times(written[d], UserLeft(u)) = 1

\* The task of connection c is inside a dispatch, a broadcast or a cleanup.
Busy(c) == pc[c] \notin {"init", "loop", "done"}

\* The task of connection c can take its next step: no lock that the step
\* acquires is held by a task.
CanStep(c) ==
    ENABLED (\/ JoinEntry(c) \/ JoinSend(c) \/ Mutate(c) \/ Select(c) \/ LeaveUsers(c)
             \/ CleanupMeta(c) \/ CleanupUsers(c) \/ BroadcastVisit(c))

\* The task of connection c waits for a guard that the task of d holds.
WaitsFor(c, d) == Wants(c) # None /\ lock[shard_of[Wants(c)]] = d

\* The task of connection c takes a step here.
StepOf(c) == pc'[c] # pc[c] \/ task'[c] # task[c]

SnapshotsOf(d) ==
    (IF pc[d] = "join_send" THEN {task[d].json} ELSE {})
    \cup {written[d][k].json : k \in {i \in 1..Len(written[d]) :
              /\ written[d][i].json.event_type = "FullStateSync"
              /\ connection_meta[d].uid \in DOMAIN written[d][i].json.session.users}}

\* The creation that log entry e records is in snapshot j: its entry is in
\* the snapshot's log and its object in the snapshot's map.
InSnapshot(j, e) ==
    /\ \E k \in 1..Len(j.session.event_log) : j.session.event_log[k] = e
    /\ e.payload.object_id \in DOMAIN j.session.objects

\* The CreateObject that log entry e records has completed: its dispatch is
\* past the broadcast of its ObjectCreated.
Completed(e) ==
    \A c \in Conns :
        pc[c] = "broadcast"
           => ~ ( /\ task[c].json.event_type = "ObjectCreated"
                  /\ task[c].json.object.last_updated_at = e.timestamp )

\* The ObjectCreated of the creation that log entry e records was handed to
\* connection d: it is in d's channel or was written to d's transport, or it
\* was dropped because d's channel was full.
Announced(d, e) ==
    \E u \in 1..next_uuid :
        Got(d, ObjectCreated(SceneObject(Logged(e), u, e.timestamp), u)) >= 1

\* C35: no gap between snapshot and subscription.  For a connection d bound
\* to a session, every object of the session whose CreateObject has completed
\* is in the snapshot taken for d's join or had its ObjectCreated handed to d
\* (enqueued, the queue not being full); and the FullStateSync is written to
\* d's transport before any event broadcast to d: d has a snapshot, nothing
\* is written to d while the FullStateSync is unwritten, and whatever else
\* was written to d comes after a FullStateSync.
C35_NoGap ==
    \A d \in Conns \cap DOMAIN connection_meta :
        /\ pc[d] # "join" => Cardinality(SnapshotsOf(d)) = 1
        /\ \A k \in 1..Len(LogOf(sessions, connection_meta[d].sid)) :
              LET e == LogOf(sessions, connection_meta[d].sid)[k]
              IN  (e.event_type = "CreateObject" /\ Completed(e) /\ pc[d] # "join")
                     => \/ \E j \in SnapshotsOf(d) : InSnapshot(j, e)
                        \/ Announced(d, e)
        /\ pc[d] = "join_send" => written[d] = <<>>
        /\ written[d] # <<>> => written[d][1].json.event_type = "FullStateSync"

\* C35: the second connection joined while the first was creating o1: its
\* snapshot, written first, is without o1, the creation has completed, and
\* the ObjectCreated of o1 was written to it after the snapshot.
C35_Witness ==
    /\ "c2" \in DOMAIN connection_meta
    /\ Len(written["c2"]) >= 2
    /\ written["c2"][1].json.event_type = "FullStateSync"
    /\ "o1" \notin DOMAIN written["c2"][1].json.session.objects
    /\ written["c2"][2].json.event_type = "ObjectCreated"
    /\ written["c2"][2].json.object.object_id = "o1"
    /\ \A c \in Conns : pc[c] # "broadcast"

\* C35: the other side of the race: the second connection joined between the
\* insertion of o1 and its announcement, so o1 is in its snapshot and its
\* ObjectCreated reached it as well.
C35_InBoth ==
    /\ "c2" \in DOMAIN connection_meta
    /\ Len(written["c2"]) >= 2
    /\ written["c2"][1].json.event_type = "FullStateSync"
    /\ "o1" \in DOMAIN written["c2"][1].json.session.objects
    /\ written["c2"][2].json.event_type = "ObjectCreated"
    /\ written["c2"][2].json.object.object_id = "o1"

\* C36: a CreateObject whose object id is already in the session's map
\* replaces the object stored under that id by the one built from the payload
\* for the acting user (last writer wins, created_by included) and leaves
\* the number of objects, and every other object, as they were; one LogEntry
\* of the event is appended and ObjectCreated with the new object is
\* broadcast to the session, nobody excluded, as for a new id.
C36_CreateReplaces ==
    [][\A c \in Conns :
         (/\ pc[c] = "mutate"
          /\ pc'[c] # "mutate"
          /\ task[c].ev.event_type = "CreateObject"
          /\ task[c].sid \in DOMAIN sessions
          /\ task[c].ev.object_id \in DOMAIN sessions[task[c].sid].objects)
         => \A s \in {task[c].sid} : \A o \in {task[c].ev.object_id} :
               /\ DOMAIN sessions'[s].objects = DOMAIN sessions[s].objects
               /\ Cardinality(DOMAIN sessions'[s].objects)
                     = Cardinality(DOMAIN sessions[s].objects)
               /\ \A x \in DOMAIN sessions[s].objects \ {o} :
                     sessions'[s].objects[x] = sessions[s].objects[x]
               /\ sessions'[s].objects[o].object_id = o
               /\ \A g \in PayloadFields : sessions'[s].objects[o][g] = task[c].ev[g]
               /\ sessions'[s].objects[o].created_by = task[c].uid
               /\ sessions'[s].objects[o].last_updated_by = task[c].uid
               /\ sessions'[s].objects[o].last_updated_at = task[c].now
               /\ sessions'[s].objects[o] # sessions[s].objects[o]
               /\ Len(sessions'[s].event_log) = Len(sessions[s].event_log) + 1
               /\ IsPrefix(sessions[s].event_log, sessions'[s].event_log)
               /\ EntryOf(Last(sessions'[s].event_log), task[c].ev)
               /\ pc'[c] = "broadcast"
               /\ task'[c].sid = s
               /\ task'[c].exclude = None
               /\ task'[c].json = ObjectCreated(sessions'[s].objects[o], task[c].uid)]_vars

\* C36: both members created o1, one after the other: the session holds one
\* object, created by the second of them, the log holds both creations, and
\* the first member was written the ObjectCreated of each.
C36_Witness ==
    /\ "A" \in DOMAIN sessions
    /\ DOMAIN sessions["A"].objects = {"o1"}
    /\ Len(sessions["A"].event_log) = 2
    /\ \A k \in 1..2 : sessions["A"].event_log[k].event_type = "CreateObject"
    /\ \E u, v \in 1..next_uuid :
          /\ u # v
          /\ sessions["A"].objects["o1"].created_by = v
          /\ sessions["A"].objects["o1"].last_updated_at = sessions["A"].event_log[2].timestamp
          /\ Times(written["c1"],
                   ObjectCreated(SceneObject(Cube("o1"), u,
                                             sessions["A"].event_log[1].timestamp), u)) = 1
          /\ Times(written["c1"], ObjectCreated(sessions["A"].objects["o1"], v)) = 1
====
